---- MODULE Spec2Model ----
(***************************************************************************)
(* State-machine model of the bitbank adapter core:                        *)
(*   - MarketDataFeed    (src/src/client/data_client.rs)   -> Spec         *)
(*   - PrivateFeedClient (src/src/client/pubnub.rs and the token-refresh   *)
(*     loop of src/src/client/execution_client.rs)         -> SpecPoll     *)
(*   - OrderBook         (src/src/model/orderbook.rs)      -> SpecBook     *)
(*   - ExecutionCoordinator (src/src/client/execution_client.rs: the order *)
(*     cache, submit_order and the order-event consumer)   -> SpecExec     *)
(*   - SignedRestClient  (src/src/client/rest.rs, src/src/error.rs)        *)
(*                                                          -> SpecRest     *)
(*   - the receive arm of the feed loop with the order-book map            *)
(*     (src/src/client/data_client.rs)                     -> SpecStream   *)
(* Each specification moves its own component and leaves the variables of  *)
(* the other components untouched.                                         *)
(***************************************************************************)
EXTENDS Integers, Sequences, FiniteSets, TLC

VARIABLES
    \* ---- MarketDataFeed (BitbankDataClient) ----
    sender,             \* the Option<UnboundedSender> slot: "none" | "some"
    cmdq,               \* rooms waiting in the unbounded command channel
    subscriptions,      \* the HashSet of rooms (SubscriptionSet)
    pc,                 \* position of the spawned feed loop
    backoff_sec,        \* the loop's backoff_sec local
    written,            \* frames handed to write.send on the current connection
    retries,            \* history: sleeps since the last successful connect_async
    connections,        \* history: successful connect_async calls, saturating at 2
    accepted,           \* history: rooms for which subscribe returned Ok
    pendingAtHandshake, \* history: rooms queued when the current connection's handshake was sent
    replayed,           \* history: rooms re-joined by the current connection's handshake
    \* ---- PrivateFeedClient (PubNubClient + token-refresh loop) ----
    running,            \* the shared stop flag (true = keep polling)
    outer,              \* position of the token-refresh loop
    inner,              \* position of the poll loop inside PubNubClient::connect
    poll_backoff,       \* the poll loop's backoff_sec local
    timetoken,          \* the poll loop's continuation cursor
    stopCalled,         \* history: stop_py was called after connect
    callback,           \* the Option<PyObject> slot of the external sink: set or not
    auth,               \* the token the current attempt polls with (0: none), numbered by fetch
    fetches,            \* history: auth fetches that returned Ok
    expired,            \* history: tokens a poll answered with 401/403
    poll_retries,       \* history: consecutive failed polls of the current attempt
    response,           \* history: the messages of the latest 2xx response
    chan_log,           \* history: tx.send calls made for that response, with their outcome
    sink_log,           \* history: sink callback calls made for that response, with their outcome
    poll_body,          \* history: whether that response's body parsed, and the string at t.t
    \* ---- OrderBook ----
    book,               \* the OrderBook: asks, bids, sequence, timestamp
    lastOp,             \* history: what the last operation on the book did
    \* ---- ExecutionCoordinator (BitbankExecutionClient) ----
    orders,             \* OrderStateCache: HashMap<u64, Order>
    client_oid_map,     \* ClientOrderIdMap: HashMap<String, u64>
    order_callback,     \* the Option<PyObject> slot of the order-event sink: set or not
    calls,              \* the submit_order futures in progress, one per caller
    current,            \* history: the message the consumer received last
    pending,            \* the params of that message still to be worked through
    event_type,         \* the event kind mapped from that message's method
    events,             \* history: sink calls made for that message
    issued,             \* history: exchange order ids create_order has returned
    lastCall,           \* history: the pass-through call the last step made, if it was one
    \* ---- SignedRestClient (BitbankRestClient and its callers) ----
    rest_op,            \* the REST operation in progress, "none" when idle
    timestamp,          \* the clock reading request() took for the request in progress
    sent,               \* the request handed to builder.send()
    reply,              \* the HTTP response: status and body
    outcome,            \* the Result<T, BitbankError> request() returned
    raised,             \* the PyErr that reached the Python caller, if any
    \* ---- the receive arm of the feed loop ----
    books,              \* the HashMap<String, OrderBook> of the data client
    data_callback,      \* the Option<PyObject> slot of the market-data sink: set or not
    frame,              \* history: the text frame the last iteration read
    delivered,          \* history: the sink calls that iteration made
    wrote,              \* history: the frames that iteration handed to write.send
    \* ---- lock scopes of the code blocks that take a lock ----
    block,              \* the statements of the running block still to be executed
    held,               \* the locks the task running the block holds
    trace,              \* history: the statements executed, each with the locks held then
    \* ---- the feed loops of one client, one per connect() call ----
    loops,              \* where each spawned loop is
    slot,               \* the loop whose command sender the client's slot holds (0: none yet)
    handled             \* history: how many inbound frames each loop has handled

feedVars == <<sender, cmdq, subscriptions, pc, backoff_sec, written, retries,
              connections, accepted, pendingAtHandshake, replayed>>
pollVars == <<running, outer, inner, poll_backoff, timetoken, stopCalled, callback,
              auth, fetches, expired, poll_retries, response, chan_log, sink_log, poll_body>>
bookVars == <<book, lastOp>>
execVars == <<orders, client_oid_map, order_callback, calls, current, pending, event_type,
              events, issued, lastCall>>
restVars == <<rest_op, timestamp, sent, reply, outcome, raised>>
streamVars == <<books, data_callback, frame, delivered, wrote>>
lockVars == <<block, held, trace>>
vars == <<feedVars, pollVars, bookVars, execVars, restVars, streamVars, lockVars,
          loops, slot, handled>>

\* Each component's actions leave the other components alone.
FeedOnly ==
    UNCHANGED <<pollVars, bookVars, execVars, restVars, streamVars, lockVars, loops, slot, handled>>
PollOnly ==
    UNCHANGED <<feedVars, bookVars, execVars, restVars, streamVars, lockVars, loops, slot, handled>>
BookOnly ==
    UNCHANGED <<feedVars, pollVars, execVars, restVars, streamVars, lockVars, loops, slot, handled>>
ExecOnly ==
    UNCHANGED <<feedVars, pollVars, bookVars, restVars, streamVars, lockVars, loops, slot, handled>>
RestOnly ==
    UNCHANGED <<feedVars, pollVars, bookVars, execVars, streamVars, lockVars, loops, slot, handled>>
StreamOnly ==
    UNCHANGED <<feedVars, pollVars, bookVars, execVars, restVars, lockVars, loops, slot, handled>>
LocksOnly ==
    UNCHANGED <<feedVars, pollVars, bookVars, execVars, restVars, streamVars, loops, slot, handled>>

\* ------------------------------------------------------------------------
\* Bounds of the model
\* ------------------------------------------------------------------------
MaxQueue == 2
MaxWritten == 5
MaxRetries == 9
MaxSeq == 2
MaxLevels == 2
MaxFetches == 3
MaxMsgs == 2
MaxParams == 2
MaxFrameLevels == 1
MaxLoops == 2
MaxHandled == 3

\* ------------------------------------------------------------------------
\* Helpers
\* ------------------------------------------------------------------------
Min(a, b) == IF a < b THEN a ELSE b

Range(s) == {s[i] : i \in 1..Len(s)}

RECURSIVE Pow2(_)
Pow2(n) == IF n = 0 THEN 1 ELSE 2 * Pow2(n - 1)

\* ------------------------------------------------------------------------
\* MarketDataFeed
\* ------------------------------------------------------------------------
Rooms == {"ticker_btc_jpy", "depth_whole_btc_jpy"}

max_backoff == 64

HandshakeFrame == <<"40">>
PongFrame == <<"3">>
JoinFrame(room) == <<"42", "join-room", room>>

JoinedRooms(frames) ==
    {r \in Rooms : \E i \in 1..Len(frames) : frames[i] = JoinFrame(r)}

\* All orders in which a HashSet of rooms can be iterated.
Orders(S) ==
    {q \in [1..Cardinality(S) -> S] : \A i, j \in 1..Cardinality(S) : i # j => q[i] # q[j]}

JoinFrames(order) == [i \in 1..Len(order) |-> JoinFrame(order[i])]

FeedInit ==
    /\ sender = "none"
    /\ cmdq = <<>>
    /\ subscriptions = {}
    /\ pc = "idle"
    /\ backoff_sec = 1
    /\ written = <<>>
    /\ retries = 0
    /\ connections = 0
    /\ accepted = {}
    /\ pendingAtHandshake = {}
    /\ replayed = {}

\* connect(): create the channel, store the sender, spawn the loop.
Connect ==
    /\ pc = "idle"
    /\ sender' = "some"
    /\ pc' = "connecting"
    /\ UNCHANGED <<cmdq, subscriptions, backoff_sec, written, retries, connections,
                   accepted, pendingAtHandshake, replayed>>
    /\ FeedOnly

\* subscribe(rooms): one tx.send per room; fails when the sender slot is None.
Subscribe ==
    /\ sender = "some"
    /\ Len(cmdq) < MaxQueue
    /\ \E room \in Rooms :
        /\ cmdq' = Append(cmdq, room)
        /\ accepted' = accepted \cup {room}
    /\ UNCHANGED <<sender, subscriptions, pc, backoff_sec, written, retries, connections,
                   pendingAtHandshake, replayed>>
    /\ FeedOnly

\* disconnect(): drop the sender.
Disconnect ==
    /\ sender = "some"
    /\ sender' = "none"
    /\ UNCHANGED <<cmdq, subscriptions, pc, backoff_sec, written, retries, connections,
                   accepted, pendingAtHandshake, replayed>>
    /\ FeedOnly

\* connect_async returned Ok: reset the backoff, split the stream.
ConnectOk ==
    /\ pc = "connecting"
    /\ pc' = "handshake"
    /\ backoff_sec' = 1
    /\ written' = <<>>
    /\ retries' = 0
    /\ connections' = IF connections < 2 THEN connections + 1 ELSE connections
    /\ UNCHANGED <<sender, cmdq, subscriptions, accepted, pendingAtHandshake, replayed>>
    /\ FeedOnly

\* connect_async returned Err: fall through to the sleep.
ConnectFail ==
    /\ pc = "connecting"
    /\ retries < MaxRetries
    /\ pc' = "sleeping"
    /\ retries' = retries + 1
    /\ UNCHANGED <<sender, cmdq, subscriptions, backoff_sec, written, connections,
                   accepted, pendingAtHandshake, replayed>>
    /\ FeedOnly

\* Mutant of HandshakeOk: the replay stops after the first room.
HandshakeOk_FirstRoomOnly ==
    /\ pc = "handshake"
    /\ \E order \in Orders(subscriptions) :
        written' = <<HandshakeFrame>> \o SubSeq(JoinFrames(order), 1, Min(1, Len(order)))
    /\ pc' = "streaming"
    /\ pendingAtHandshake' = Range(cmdq)
    /\ replayed' = subscriptions
    /\ UNCHANGED <<sender, cmdq, subscriptions, backoff_sec, retries, connections, accepted>>
    /\ FeedOnly

\* Mutant of HandshakeOk: the joins are sent before the handshake frame.
HandshakeOk_JoinsFirst ==
    /\ pc = "handshake"
    /\ \E order \in Orders(subscriptions) :
        written' = JoinFrames(order) \o <<HandshakeFrame>>
    /\ pc' = "streaming"
    /\ pendingAtHandshake' = Range(cmdq)
    /\ replayed' = subscriptions
    /\ UNCHANGED <<sender, cmdq, subscriptions, backoff_sec, retries, connections, accepted>>
    /\ FeedOnly

\* The handshake "40" is sent, then one join per room of the set; the results
\* of the join sends are discarded.
HandshakeOk ==
    /\ pc = "handshake"
    /\ \E order \in Orders(subscriptions) :
        written' = <<HandshakeFrame>> \o JoinFrames(order)
    /\ pc' = "streaming"
    /\ pendingAtHandshake' = Range(cmdq)
    /\ replayed' = subscriptions
    /\ UNCHANGED <<sender, cmdq, subscriptions, backoff_sec, retries, connections, accepted>>
    /\ FeedOnly

\* The handshake send failed: `continue`, which skips the sleep.
HandshakeFail ==
    /\ pc = "handshake"
    /\ written' = <<HandshakeFrame>>
    /\ pc' = "connecting"
    /\ UNCHANGED <<sender, cmdq, subscriptions, backoff_sec, retries, connections,
                   accepted, pendingAtHandshake, replayed>>
    /\ FeedOnly

\* read.next() gave the heartbeat "2": answer "3" (send result discarded).
RecvPing ==
    /\ pc = "streaming"
    /\ Len(written) < MaxWritten
    /\ written' = Append(written, PongFrame)
    /\ UNCHANGED <<sender, cmdq, subscriptions, pc, backoff_sec, retries, connections,
                   accepted, pendingAtHandshake, replayed>>
    /\ FeedOnly

\* Mutant of RecvTerminal: the loop gives up when its second connection ends.
RecvTerminal_GivesUp ==
    /\ pc = "streaming"
    /\ pc' = IF connections >= 2 THEN "done" ELSE "sleeping"
    /\ retries' = retries + 1
    /\ UNCHANGED <<sender, cmdq, subscriptions, backoff_sec, written, connections,
                   accepted, pendingAtHandshake, replayed>>
    /\ FeedOnly

\* read.next() gave a close frame, a transport error or the end of the stream.
RecvTerminal ==
    /\ pc = "streaming"
    /\ pc' = "sleeping"
    /\ retries' = retries + 1
    /\ UNCHANGED <<sender, cmdq, subscriptions, backoff_sec, written, connections,
                   accepted, pendingAtHandshake, replayed>>
    /\ FeedOnly

\* Mutant of RecvCommand: the room is joined but not stored for reconnection.
RecvCommand_NotStored ==
    /\ pc = "streaming"
    /\ cmdq # <<>>
    /\ Len(written) < MaxWritten
    /\ cmdq' = Tail(cmdq)
    /\ written' = Append(written, JoinFrame(Head(cmdq)))
    /\ UNCHANGED <<sender, subscriptions, pc, backoff_sec, retries, connections, accepted,
                   pendingAtHandshake, replayed>>
    /\ FeedOnly

\* rx.recv() gave Some(room): store it, send the join; a failed send breaks.
RecvCommand ==
    /\ pc = "streaming"
    /\ cmdq # <<>>
    /\ Len(written) < MaxWritten
    /\ subscriptions' = subscriptions \cup {Head(cmdq)}
    /\ cmdq' = Tail(cmdq)
    /\ written' = Append(written, JoinFrame(Head(cmdq)))
    /\ \/ /\ pc' = pc
          /\ retries' = retries
       \/ /\ pc' = "sleeping"
          /\ retries' = retries + 1
    /\ UNCHANGED <<sender, backoff_sec, connections, accepted, pendingAtHandshake, replayed>>
    /\ FeedOnly

\* rx.recv() gave None (every sender dropped and the queue drained): return.
RecvClosed ==
    /\ pc = "streaming"
    /\ cmdq = <<>>
    /\ sender = "none"
    /\ pc' = "done"
    /\ UNCHANGED <<sender, cmdq, subscriptions, backoff_sec, written, retries, connections,
                   accepted, pendingAtHandshake, replayed>>
    /\ FeedOnly

\* Mutant of Wake: the doubling is not capped.
Wake_NoCap ==
    /\ pc = "sleeping"
    /\ backoff_sec' = backoff_sec * 2
    /\ pc' = "connecting"
    /\ UNCHANGED <<sender, cmdq, subscriptions, written, retries, connections,
                   accepted, pendingAtHandshake, replayed>>
    /\ FeedOnly

\* sleep(backoff_sec) is over: double the backoff, capped, and loop.
Wake ==
    /\ pc = "sleeping"
    /\ backoff_sec' = Min(backoff_sec * 2, max_backoff)
    /\ pc' = "connecting"
    /\ UNCHANGED <<sender, cmdq, subscriptions, written, retries, connections,
                   accepted, pendingAtHandshake, replayed>>
    /\ FeedOnly

\* ------------------------------------------------------------------------
\* PrivateFeedClient: PubNubClient::connect (poll loop) inside the token-refresh
\* loop spawned by BitbankExecutionClient::connect
\* ------------------------------------------------------------------------
Cursors == {"t1", "t2"}

poll_max_backoff == 64

\* A message of a poll response's "m" array as it comes off the wire: what it
\* says and how its JSON text is laid out.
MsgIds == {"a", "b"}
Forms == {"compact", "spaced"}
NetMessages == [id : MsgIds, form : Forms]

\* serde_json's Value::to_string of a parsed message: the same content in
\* compact layout.
Serialize(m) == [m EXCEPT !.form = "compact"]

\* The "m" arrays of a response.
MsgLists == UNION {[1..n -> NetMessages] : n \in 0..MaxMsgs}

\* The bodies of a 2xx response: unreadable or unparsable, or parsed with an
\* optional string cursor at t.t and the messages of "m" (none when absent).
Responses ==
    {r \in [parsed : BOOLEAN, cursor : Cursors \cup {"absent"}, m : MsgLists] :
        ~r.parsed => (r.cursor = "absent" /\ r.m = <<>>)}

\* The forwarding loop over the messages of a response: one tx.send per
\* message, its result discarded.
ChanSends(msgs, chanOk) ==
    [i \in 1..Len(msgs) |-> [text |-> Serialize(msgs[i]), ok |-> chanOk]]

\* The forwarding loop over the messages of a response: one callback call per
\* message when a callback is registered, an exception printed and dropped.
SinkCalls(msgs, registered, sinkOk) ==
    IF registered
    THEN [i \in 1..Len(msgs) |-> [text |-> Serialize(msgs[i]), ok |-> sinkOk[i]]]
    ELSE <<>>

\* No response body has been read for the poll in flight.
NoBody == [parsed |-> FALSE, cursor |-> "none"]

PollInit ==
    /\ running = FALSE
    /\ outer = "idle"
    /\ inner = "none"
    /\ poll_backoff = 1
    /\ timetoken = "0"
    /\ stopCalled = FALSE
    /\ callback = FALSE
    /\ auth = 0
    /\ fetches = 0
    /\ expired = {}
    /\ poll_retries = 0
    /\ response = <<>>
    /\ chan_log = <<>>
    /\ sink_log = <<>>
    /\ poll_body = NoBody

\* BitbankExecutionClient::connect hands the internal sender to the
\* PubNubClient and spawns the token-refresh loop, which starts with
\* rc.get_pubnub_auth().
ExecConnect ==
    /\ outer = "idle"
    /\ outer' = "fetching"
    /\ UNCHANGED <<running, inner, poll_backoff, timetoken, stopCalled, callback,
                   auth, fetches, expired, poll_retries, response, chan_log, sink_log, poll_body>>
    /\ PollOnly

\* set_pubnub_callback / set_callback: register the external sink.
SetCallback ==
    /\ ~callback
    /\ callback' = TRUE
    /\ UNCHANGED <<running, outer, inner, poll_backoff, timetoken, stopCalled,
                   auth, fetches, expired, poll_retries, response, chan_log, sink_log, poll_body>>
    /\ PollOnly

\* Mutant of AuthFetchOk: the attempt polls with the parameters of the
\* previous fetch when there is one.
AuthFetchOk_CachedParams ==
    /\ outer = "fetching"
    /\ fetches < MaxFetches
    /\ outer' = "polling"
    /\ inner' = "top"
    /\ running' = TRUE
    /\ timetoken' = "0"
    /\ poll_backoff' = 1
    /\ poll_retries' = 0
    /\ fetches' = fetches + 1
    /\ auth' = IF auth = 0 THEN fetches + 1 ELSE auth
    /\ UNCHANGED <<stopCalled, callback, expired, response, chan_log, sink_log, poll_body>>
    /\ PollOnly

\* get_pubnub_auth returned Ok: PubNubClient::connect starts with the channel
\* and token just fetched: timetoken = "0", *run = true, backoff_sec = 1.
AuthFetchOk ==
    /\ outer = "fetching"
    /\ fetches < MaxFetches
    /\ outer' = "polling"
    /\ inner' = "top"
    /\ running' = TRUE
    /\ timetoken' = "0"
    /\ poll_backoff' = 1
    /\ poll_retries' = 0
    /\ fetches' = fetches + 1
    /\ auth' = fetches + 1
    /\ UNCHANGED <<stopCalled, callback, expired, response, chan_log, sink_log, poll_body>>
    /\ PollOnly

\* get_pubnub_auth returned Err: sleep 10 s.
AuthFetchFail ==
    /\ outer = "fetching"
    /\ outer' = "wait_retry"
    /\ UNCHANGED <<running, inner, poll_backoff, timetoken, stopCalled, callback,
                   auth, fetches, expired, poll_retries, response, chan_log, sink_log, poll_body>>
    /\ PollOnly

\* Mutant of RefreshWake: after a failed fetch the loop ends.
RefreshWake_GivesUp ==
    /\ outer \in {"wait_retry", "wait_refresh"}
    /\ outer' = IF outer = "wait_retry" THEN "terminated" ELSE "fetching"
    /\ UNCHANGED <<running, inner, poll_backoff, timetoken, stopCalled, callback,
                   auth, fetches, expired, poll_retries, response, chan_log, sink_log, poll_body>>
    /\ PollOnly

\* The 10 s (failed fetch) or 5 s (auth expired) sleep is over: loop, fetch again.
RefreshWake ==
    /\ outer \in {"wait_retry", "wait_refresh"}
    /\ outer' = "fetching"
    /\ UNCHANGED <<running, inner, poll_backoff, timetoken, stopCalled, callback,
                   auth, fetches, expired, poll_retries, response, chan_log, sink_log, poll_body>>
    /\ PollOnly

\* Top of the poll loop with the flag set: issue the long-poll request with
\* the attempt's token and the cursor.
PollIssue ==
    /\ outer = "polling"
    /\ inner = "top"
    /\ running
    /\ inner' = "inflight"
    /\ response' = <<>>
    /\ chan_log' = <<>>
    /\ sink_log' = <<>>
    /\ poll_body' = NoBody
    /\ UNCHANGED <<running, outer, poll_backoff, timetoken, stopCalled, callback,
                   auth, fetches, expired, poll_retries>>
    /\ PollOnly

\* Top of the poll loop with the flag cleared: break, return Ok(()); the
\* token-refresh loop breaks too.
PollStop ==
    /\ outer = "polling"
    /\ inner = "top"
    /\ ~running
    /\ inner' = "none"
    /\ outer' = "terminated"
    /\ UNCHANGED <<running, poll_backoff, timetoken, stopCalled, callback,
                   auth, fetches, expired, poll_retries, response, chan_log, sink_log, poll_body>>
    /\ PollOnly

\* Mutant of PollOk: the forwarding loop ends at the first message whose sink
\* callback fails.
PollOk_StopOnSinkError ==
    /\ outer = "polling"
    /\ inner = "inflight"
    /\ inner' = "top"
    /\ poll_backoff' = 1
    /\ poll_retries' = 0
    /\ \E r \in Responses, chanOk \in BOOLEAN, sinkOk \in [1..MaxMsgs -> BOOLEAN] :
        LET bad == {i \in 1..Len(r.m) : callback /\ ~sinkOk[i]}
            n == IF bad = {} THEN Len(r.m) ELSE CHOOSE i \in bad : \A j \in bad : i <= j
        IN /\ timetoken' = IF r.cursor = "absent" THEN timetoken ELSE r.cursor
           /\ response' = r.m
           /\ chan_log' = ChanSends(SubSeq(r.m, 1, n), chanOk)
           /\ sink_log' = SinkCalls(SubSeq(r.m, 1, n), callback, sinkOk)
           /\ poll_body' = [parsed |-> r.parsed, cursor |-> r.cursor]
    /\ UNCHANGED <<running, outer, stopCalled, callback, auth, fetches, expired>>
    /\ PollOnly

\* Mutant of PollOk: a body without a string at t.t puts the cursor back to
\* the sentinel.
PollOk_ResetsCursor ==
    /\ outer = "polling"
    /\ inner = "inflight"
    /\ inner' = "top"
    /\ poll_backoff' = 1
    /\ poll_retries' = 0
    /\ \E r \in Responses, chanOk \in BOOLEAN, sinkOk \in [1..MaxMsgs -> BOOLEAN] :
        /\ timetoken' = IF r.cursor = "absent" THEN "0" ELSE r.cursor
        /\ response' = r.m
        /\ chan_log' = ChanSends(r.m, chanOk)
        /\ sink_log' = SinkCalls(r.m, callback, sinkOk)
        /\ poll_body' = [parsed |-> r.parsed, cursor |-> r.cursor]
    /\ UNCHANGED <<running, outer, stopCalled, callback, auth, fetches, expired>>
    /\ PollOnly

\* The poll returned 2xx: reset the backoff; take the cursor when the body
\* carries a string at t.t; forward every message of "m", in array order, to
\* the internal channel and to the sink callback.
PollOk ==
    /\ outer = "polling"
    /\ inner = "inflight"
    /\ inner' = "top"
    /\ poll_backoff' = 1
    /\ poll_retries' = 0
    /\ \E r \in Responses, chanOk \in BOOLEAN, sinkOk \in [1..MaxMsgs -> BOOLEAN] :
        /\ timetoken' = IF r.cursor = "absent" THEN timetoken ELSE r.cursor
        /\ response' = r.m
        /\ chan_log' = ChanSends(r.m, chanOk)
        /\ sink_log' = SinkCalls(r.m, callback, sinkOk)
        /\ poll_body' = [parsed |-> r.parsed, cursor |-> r.cursor]
    /\ UNCHANGED <<running, outer, stopCalled, callback, auth, fetches, expired>>
    /\ PollOnly

\* Mutant of PollAuthExpired: 401/403 is handled like any other failure.
PollAuthExpired_RetryLocally ==
    /\ outer = "polling"
    /\ inner = "inflight"
    /\ inner' = "sleeping"
    /\ expired' = expired \cup {auth}
    /\ UNCHANGED <<running, outer, poll_backoff, timetoken, stopCalled, callback,
                   auth, fetches, poll_retries, response, chan_log, sink_log, poll_body>>
    /\ PollOnly

\* The poll returned 401 or 403: return Err; the token-refresh loop sleeps 5 s.
PollAuthExpired ==
    /\ outer = "polling"
    /\ inner = "inflight"
    /\ inner' = "none"
    /\ outer' = "wait_refresh"
    /\ expired' = expired \cup {auth}
    /\ UNCHANGED <<running, poll_backoff, timetoken, stopCalled, callback,
                   auth, fetches, poll_retries, response, chan_log, sink_log, poll_body>>
    /\ PollOnly

\* Any other non-2xx status, or a network error: sleep(backoff_sec).
PollFail ==
    /\ outer = "polling"
    /\ inner = "inflight"
    /\ poll_retries < MaxRetries
    /\ inner' = "sleeping"
    /\ poll_retries' = poll_retries + 1
    /\ UNCHANGED <<running, outer, poll_backoff, timetoken, stopCalled, callback,
                   auth, fetches, expired, response, chan_log, sink_log, poll_body>>
    /\ PollOnly

\* Mutant of PollWake: the backoff is not doubled.
PollWake_NoDoubling ==
    /\ outer = "polling"
    /\ inner = "sleeping"
    /\ inner' = "top"
    /\ UNCHANGED <<running, outer, poll_backoff, timetoken, stopCalled, callback,
                   auth, fetches, expired, poll_retries, response, chan_log, sink_log, poll_body>>
    /\ PollOnly

\* The backoff sleep is over: double the backoff, capped, and loop.
PollWake ==
    /\ outer = "polling"
    /\ inner = "sleeping"
    /\ poll_backoff' = Min(poll_backoff * 2, poll_max_backoff)
    /\ inner' = "top"
    /\ UNCHANGED <<running, outer, timetoken, stopCalled, callback,
                   auth, fetches, expired, poll_retries, response, chan_log, sink_log, poll_body>>
    /\ PollOnly

\* stop_py(): *run = false.
Stop ==
    /\ outer # "idle"
    /\ running' = FALSE
    /\ stopCalled' = TRUE
    /\ UNCHANGED <<outer, inner, poll_backoff, timetoken, callback,
                   auth, fetches, expired, poll_retries, response, chan_log, sink_log, poll_body>>
    /\ PollOnly

\* ------------------------------------------------------------------------
\* OrderBook
\* ------------------------------------------------------------------------
\* A price string is modelled as the sequence of its digits, so that the
\* BTreeMap<String, _> key order (byte-wise) can be computed; an amount is
\* only ever compared for equality and stays a string.
P98 == <<9, 8>>
P99 == <<9, 9>>
P100 == <<1, 0, 0>>
P101 == <<1, 0, 1>>
P102 == <<1, 0, 2>>
Prices == {P98, P99, P100, P101, P102}

AskLevels == {<<P101, "1">>, <<P102, "2">>, <<P101, "0">>}
BidLevels == {<<P99, "1">>, <<P98, "3">>, <<P100, "3">>, <<P98, "0.0000">>}
Timestamps == {1, 2}

LevelLists(L, n) == UNION {[1..k -> L] : k \in 0..n}

LevelPairs ==
    {ab \in LevelLists(AskLevels, MaxLevels) \X LevelLists(BidLevels, MaxLevels) :
        Len(ab[1]) + Len(ab[2]) <= MaxLevels}

\* Depth: s is Option<u64>, <<>> for None and <<n>> for Some(n).
DepthInputs ==
    {[asks |-> ab[1], bids |-> ab[2], timestamp |-> t, s |-> o] :
        ab \in LevelPairs, t \in Timestamps,
        o \in {<<>>} \cup {<<n>> : n \in 0..MaxSeq}}

\* DepthDiff: s is mandatory.
DepthDiffInputs ==
    {[asks |-> ab[1], bids |-> ab[2], timestamp |-> t, s |-> n] :
        ab \in LevelPairs, t \in Timestamps, n \in 0..MaxSeq}

\* str::cmp: byte-wise lexicographic order, a proper prefix first.
StrLess(a, b) ==
    \/ \E i \in 1..Min(Len(a), Len(b)) :
        /\ \A j \in 1..(i - 1) : a[j] = b[j]
        /\ a[i] < b[i]
    \/ /\ Len(a) < Len(b)
       /\ \A j \in 1..Len(a) : a[j] = b[j]

EmptyLadder == <<>>

\* BTreeMap::insert / BTreeMap::remove
LadderInsert(ladder, price, amount) ==
    [p \in DOMAIN ladder \cup {price} |-> IF p = price THEN amount ELSE ladder[p]]
LadderRemove(ladder, price) ==
    [p \in DOMAIN ladder \ {price} |-> ladder[p]]

\* The keys of a BTreeMap in iteration order.
LadderKeys(ladder) ==
    CHOOSE q \in [1..Cardinality(DOMAIN ladder) -> DOMAIN ladder] :
        \A i, j \in 1..Cardinality(DOMAIN ladder) : i < j => StrLess(q[i], q[j])

new_book == [asks |-> EmptyLadder, bids |-> EmptyLadder, sequence |-> 0, timestamp |-> 0]

\* The loop of apply_whole over one side's levels.
RECURSIVE WholeLevels(_, _)
WholeLevels(ladder, levels) ==
    IF levels = <<>> THEN ladder
    ELSE WholeLevels(
            IF Len(Head(levels)) >= 2
            THEN LadderInsert(ladder, Head(levels)[1], Head(levels)[2])
            ELSE ladder,
            Tail(levels))

\* Mutant of apply_whole: the ladders are not cleared first.
apply_whole_NoClear(b, depth) ==
    [asks |-> WholeLevels(b.asks, depth.asks),
     bids |-> WholeLevels(b.bids, depth.bids),
     sequence |-> IF depth.s = <<>> THEN 0 ELSE depth.s[1],
     timestamp |-> depth.timestamp]

apply_whole(b, depth) ==
    [asks |-> WholeLevels(EmptyLadder, depth.asks),
     bids |-> WholeLevels(EmptyLadder, depth.bids),
     sequence |-> IF depth.s = <<>> THEN 0 ELSE depth.s[1],
     timestamp |-> depth.timestamp]

\* Mutant of IsZeroAmount: only the four-decimal spelling is recognised.
IsZeroAmount_DecimalOnly(amount) == amount = "0.0000"

IsZeroAmount(amount) == amount = "0" \/ amount = "0.0000"

\* The loop of apply_diff over one side's levels.
RECURSIVE DiffLevels(_, _)
DiffLevels(ladder, levels) ==
    IF levels = <<>> THEN ladder
    ELSE DiffLevels(
            IF Len(Head(levels)) >= 2
            THEN IF IsZeroAmount(Head(levels)[2])
                 THEN LadderRemove(ladder, Head(levels)[1])
                 ELSE LadderInsert(ladder, Head(levels)[1], Head(levels)[2])
            ELSE ladder,
            Tail(levels))

\* Mutant of apply_diff: a diff at the book's own sequence is applied again.
apply_diff_StrictLess(b, diff) ==
    IF diff.s < b.sequence
    THEN b
    ELSE [asks |-> DiffLevels(b.asks, diff.asks),
          bids |-> DiffLevels(b.bids, diff.bids),
          sequence |-> diff.s,
          timestamp |-> diff.timestamp]

\* Mutant of apply_diff: the sequence test is missing.
apply_diff_NoSeqTest(b, diff) ==
    [asks |-> DiffLevels(b.asks, diff.asks),
     bids |-> DiffLevels(b.bids, diff.bids),
     sequence |-> diff.s,
     timestamp |-> diff.timestamp]

apply_diff(b, diff) ==
    IF diff.s <= b.sequence
    THEN b
    ELSE [asks |-> DiffLevels(b.asks, diff.asks),
          bids |-> DiffLevels(b.bids, diff.bids),
          sequence |-> diff.s,
          timestamp |-> diff.timestamp]

get_asks(b) ==
    [i \in 1..Cardinality(DOMAIN b.asks) |->
        <<LadderKeys(b.asks)[i], b.asks[LadderKeys(b.asks)[i]]>>]

get_bids(b) ==
    [i \in 1..Cardinality(DOMAIN b.bids) |->
        <<LadderKeys(b.bids)[Cardinality(DOMAIN b.bids) + 1 - i],
          b.bids[LadderKeys(b.bids)[Cardinality(DOMAIN b.bids) + 1 - i]]>>]

BookInit ==
    /\ book = new_book
    /\ lastOp = "new"

ApplyWhole ==
    /\ \E depth \in DepthInputs :
        book' = apply_whole(book, depth)
    /\ lastOp' = "whole"
    /\ BookOnly

\* lastOp records which way the sequence test of apply_diff went.
ApplyDiff ==
    /\ \E diff \in DepthDiffInputs :
        /\ book' = apply_diff(book, diff)
        /\ lastOp' = IF diff.s <= book.sequence THEN "diff_ignored" ELSE "diff_applied"
    /\ BookOnly

\* ------------------------------------------------------------------------
\* ExecutionCoordinator: BitbankExecutionClient (order cache, submit_order,
\* pass-through calls, order-event consumer)
\* ------------------------------------------------------------------------
Callers == {1, 2}
OrderIds == {1, 2}
ClientIds == {"c1", "c2"}

\* Each caller passes a client order id of its own.
ClientIdOf == (1 :> "c1") @@ (2 :> "c2")

\* The exchange numbers the orders it creates in ascending order.
NextOrderId == CHOOSE id \in OrderIds \ issued : \A j \in OrderIds \ issued : id <= j

\* An Order: its exchange id and its status (the other fields play no part).
Order(id, status) == [order_id |-> id, status |-> status]

\* serde_json::to_string of an Order.
OrderJson(o) == <<"order", o.order_id, o.status>>

\* HashMap::new and HashMap::insert.
EmptyMap == [k \in {} |-> 0]
MapInsert(map, key, value) ==
    [k \in (DOMAIN map) \cup {key} |-> IF k = key THEN value ELSE map[k]]

\* The entries of a message's params array: its JSON text, and the Order
\* serde_json::from_value::<Order> decodes from it (<<>> when it fails).
Params ==
    {[id |-> "p1", form |-> "compact", order |-> <<Order(1, "FILLED")>>],
     [id |-> "px", form |-> "compact", order |-> <<>>]}

ParamLists == UNION {[1..n -> Params] : n \in 0..MaxParams}

Methods == {"spot_order_new", "spot_order", "spot_trade", "asset_update", "withdrawal"}

\* The texts the internal channel carries: one that does not parse as an
\* envelope, or an envelope with data.method and data.params.
ChannelMessages ==
    {[parses |-> FALSE, text |-> t] : t \in {"junk", "[]"}}
    \cup {[parses |-> TRUE, method |-> m, params |-> ps] : m \in Methods, ps \in ParamLists}

\* The event kind a method maps to.
EventKind(method) ==
    CASE method \in {"spot_order_new", "spot_order"} -> "OrderUpdate"
      [] method = "spot_trade" -> "TradeUpdate"
      [] method = "asset_update" -> "AssetUpdate"
      [] OTHER -> method

\* A submit_order future that has not been started.
NoCall == [pc |-> "idle", cid |-> "", oid |-> 0, result |-> <<>>]

\* The consumer has not received anything yet.
NoMessage == [parses |-> FALSE, text |-> ""]

ExecInit ==
    /\ orders = EmptyMap
    /\ client_oid_map = EmptyMap
    /\ order_callback = FALSE
    /\ calls = [c \in Callers |-> NoCall]
    /\ current = NoMessage
    /\ pending = <<>>
    /\ event_type = ""
    /\ events = <<>>
    /\ issued = {}
    /\ lastCall = "none"

\* set_order_callback: register the order-event sink.
SetOrderCallback ==
    /\ ~order_callback
    /\ order_callback' = TRUE
    /\ lastCall' = "other"
    /\ UNCHANGED <<orders, client_oid_map, calls, current, pending, event_type, events, issued>>
    /\ ExecOnly

\* submit_order is called with a client order id of its own: create_order is
\* sent.
SubmitOrder(c) ==
    /\ calls[c].pc = "idle"
    /\ calls' = [calls EXCEPT ![c] = [pc |-> "creating", cid |-> ClientIdOf[c], oid |-> 0, result |-> <<>>]]
    /\ lastCall' = "other"
    /\ UNCHANGED <<orders, client_oid_map, order_callback, current, pending, event_type, events, issued>>
    /\ ExecOnly

\* create_order returned Ok(order_res) with an exchange id of its own.
CreateOk(c) ==
    /\ calls[c].pc = "creating"
    /\ OrderIds \ issued # {}
    /\ calls' = [calls EXCEPT ![c].pc = "insert_order", ![c].oid = NextOrderId]
    /\ issued' = issued \cup {NextOrderId}
    /\ lastCall' = "other"
    /\ UNCHANGED <<orders, client_oid_map, order_callback, current, pending, event_type, events>>
    /\ ExecOnly

\* Mutant of CreateFail: the client order id is recorded although the order
\* was not created.
CreateFail_RecordsClientId(c) ==
    /\ calls[c].pc = "creating"
    /\ \E e \in {"transport", "exchange"} :
        calls' = [calls EXCEPT ![c].pc = "failed", ![c].result = <<"error", e>>]
    /\ client_oid_map' = MapInsert(client_oid_map, calls[c].cid, 0)
    /\ lastCall' = "other"
    /\ UNCHANGED <<orders, order_callback, current, pending, event_type, events, issued>>
    /\ ExecOnly

\* create_order returned Err (transport failure or exchange rejection): the
\* future ends with the error.
CreateFail(c) ==
    /\ calls[c].pc = "creating"
    /\ \E e \in {"transport", "exchange"} :
        calls' = [calls EXCEPT ![c].pc = "failed", ![c].result = <<"error", e>>]
    /\ lastCall' = "other"
    /\ UNCHANGED <<orders, client_oid_map, order_callback, current, pending, event_type, events, issued>>
    /\ ExecOnly

\* Mutant of InsertOrder: the created Order is not put into the cache.
InsertOrder_Skipped(c) ==
    /\ calls[c].pc = "insert_order"
    /\ calls' = [calls EXCEPT ![c].pc = "insert_map"]
    /\ lastCall' = "other"
    /\ UNCHANGED <<orders, client_oid_map, order_callback, current, pending, event_type, events, issued>>
    /\ ExecOnly

\* Under the write lock: orders.insert(oid, order_res).
InsertOrder(c) ==
    /\ calls[c].pc = "insert_order"
    /\ orders' = MapInsert(orders, calls[c].oid, Order(calls[c].oid, "UNFILLED"))
    /\ calls' = [calls EXCEPT ![c].pc = "insert_map"]
    /\ lastCall' = "other"
    /\ UNCHANGED <<client_oid_map, order_callback, current, pending, event_type, events, issued>>
    /\ ExecOnly

\* Mutant of InsertMap: the client order id is not recorded.
InsertMap_Skipped(c) ==
    /\ calls[c].pc = "insert_map"
    /\ calls' = [calls EXCEPT ![c].pc = "read_back"]
    /\ lastCall' = "other"
    /\ UNCHANGED <<orders, client_oid_map, order_callback, current, pending, event_type, events, issued>>
    /\ ExecOnly

\* Under the write lock: map.insert(client_order_id, oid).
InsertMap(c) ==
    /\ calls[c].pc = "insert_map"
    /\ client_oid_map' = MapInsert(client_oid_map, calls[c].cid, calls[c].oid)
    /\ calls' = [calls EXCEPT ![c].pc = "read_back"]
    /\ lastCall' = "other"
    /\ UNCHANGED <<orders, order_callback, current, pending, event_type, events, issued>>
    /\ ExecOnly

\* Under the read lock: orders.get(&oid), serialized, is the result.
ReadBack(c) ==
    /\ calls[c].pc = "read_back"
    /\ calls[c].oid \in DOMAIN orders
    /\ calls' = [calls EXCEPT ![c].pc = "returned",
                              ![c].result = OrderJson(orders[calls[c].oid])]
    /\ lastCall' = "other"
    /\ UNCHANGED <<orders, client_oid_map, order_callback, current, pending, event_type, events, issued>>
    /\ ExecOnly

\* Mutant of GetOrder: the fetched Order is written back into the cache.
GetOrder_WritesBack ==
    /\ \E id \in OrderIds : orders' = MapInsert(orders, id, Order(id, "FILLED"))
    /\ lastCall' = "get_order"
    /\ UNCHANGED <<client_oid_map, order_callback, calls, current, pending, event_type, events, issued>>
    /\ ExecOnly

\* get_order: rest_client.get_order_py, whatever it returns.
GetOrder ==
    /\ lastCall' = "get_order"
    /\ UNCHANGED <<orders, client_oid_map, order_callback, calls, current, pending, event_type, events, issued>>
    /\ ExecOnly

\* cancel_order: rest_client.cancel_order_py, whatever it returns.
CancelOrder ==
    /\ lastCall' = "cancel_order"
    /\ UNCHANGED <<orders, client_oid_map, order_callback, calls, current, pending, event_type, events, issued>>
    /\ ExecOnly

\* get_trade_history: rest_client.get_trade_history_py, whatever it returns.
GetTradeHistory ==
    /\ lastCall' = "get_trade_history"
    /\ UNCHANGED <<orders, client_oid_map, order_callback, calls, current, pending, event_type, events, issued>>
    /\ ExecOnly

\* Mutant of ConsumeUnparsed: a message that does not parse is dropped.
ConsumeUnparsed_Dropped ==
    /\ pending = <<>>
    /\ \E msg \in ChannelMessages :
        /\ ~msg.parses
        /\ current' = msg
        /\ events' = <<>>
    /\ event_type' = "Unknown"
    /\ lastCall' = "other"
    /\ UNCHANGED <<orders, client_oid_map, order_callback, calls, pending, issued>>
    /\ ExecOnly

\* rx.recv() yields a message that does not parse as an envelope: the sink is
\* called with ("Unknown", the message text) when a callback is registered.
ConsumeUnparsed ==
    /\ pending = <<>>
    /\ \E msg \in ChannelMessages :
        /\ ~msg.parses
        /\ current' = msg
        /\ events' = IF order_callback THEN <<<<"Unknown", msg.text>>>> ELSE <<>>
    /\ event_type' = "Unknown"
    /\ lastCall' = "other"
    /\ UNCHANGED <<orders, client_oid_map, order_callback, calls, pending, issued>>
    /\ ExecOnly

\* rx.recv() yields a message that parses: the method is mapped to the event
\* kind and the loop over data.params starts.
ConsumeParsed ==
    /\ pending = <<>>
    /\ \E msg \in ChannelMessages :
        /\ msg.parses
        /\ current' = msg
        /\ event_type' = EventKind(msg.method)
        /\ pending' = msg.params
    /\ events' = <<>>
    /\ lastCall' = "other"
    /\ UNCHANGED <<orders, client_oid_map, order_callback, calls, issued>>
    /\ ExecOnly

\* Mutant of ConsumeParam: an entry that does not decode as an Order is
\* skipped altogether.
ConsumeParam_SkipUndecoded ==
    /\ pending # <<>>
    /\ LET param == Head(pending)
           decoded == event_type = "OrderUpdate" /\ param.order # <<>>
       IN /\ orders' = IF decoded
                       THEN MapInsert(orders, param.order[1].order_id, param.order[1])
                       ELSE orders
          /\ events' = IF order_callback /\ (event_type = "OrderUpdate" => decoded)
                       THEN Append(events, <<event_type, Serialize(param)>>)
                       ELSE events
    /\ pending' = Tail(pending)
    /\ lastCall' = "other"
    /\ UNCHANGED <<client_oid_map, order_callback, calls, current, event_type, issued>>
    /\ ExecOnly

\* Mutant of ConsumeParam: the decoded Order replaces the cache.
ConsumeParam_ReplacesCache ==
    /\ pending # <<>>
    /\ LET param == Head(pending)
           decoded == event_type = "OrderUpdate" /\ param.order # <<>>
       IN /\ orders' = IF decoded
                       THEN MapInsert(EmptyMap, param.order[1].order_id, param.order[1])
                       ELSE orders
          /\ events' = IF order_callback
                       THEN Append(events, <<event_type, Serialize(param)>>)
                       ELSE events
    /\ pending' = Tail(pending)
    /\ lastCall' = "other"
    /\ UNCHANGED <<client_oid_map, order_callback, calls, current, event_type, issued>>
    /\ ExecOnly

\* One turn of the loop over data.params: for an order update that decodes as
\* an Order, orders.insert(order_id, order) under the write lock; then the
\* sink is called with (event kind, param.to_string()) when a callback is
\* registered.
ConsumeParam ==
    /\ pending # <<>>
    /\ LET param == Head(pending)
           decoded == event_type = "OrderUpdate" /\ param.order # <<>>
       IN /\ orders' = IF decoded
                       THEN MapInsert(orders, param.order[1].order_id, param.order[1])
                       ELSE orders
          /\ events' = IF order_callback
                       THEN Append(events, <<event_type, Serialize(param)>>)
                       ELSE events
    /\ pending' = Tail(pending)
    /\ lastCall' = "other"
    /\ UNCHANGED <<client_oid_map, order_callback, calls, current, event_type, issued>>
    /\ ExecOnly

\* ------------------------------------------------------------------------
\* SignedRestClient
\* ------------------------------------------------------------------------
\* Texts (bodies, query strings, the signed text) are sequences of tokens, so
\* that format!-concatenation is \o.  An Option is <<>> or <<x>>.
\* SystemTime::now() as milliseconds, rendered as a decimal string.
Clock == {"1700000000000", "1700000000001"}

\* The REST operations a Python caller can start and the error conversion
\* each one applies.
RestOps == {"submit_order", "create_order_py", "cancel_order_py", "get_order_py",
            "get_trade_history_py", "get_ticker_py"}

\* Arguments of a call: the order id text and the optional price.
RestArgs == [order_id : {<<>>, <<"1">>, <<"x">>}, price : {<<>>, <<"100">>}]

\* serde_json's text of the fields of an object.
RECURSIVE JsonText(_)
JsonText(fields) ==
    IF fields = <<>> THEN <<>>
    ELSE <<fields[1][1], ":", fields[1][2]>> \o
         (IF Len(fields) > 1 THEN <<",">> ELSE <<>>) \o JsonText(Tail(fields))

\* serde_urlencoded::to_string of a list of pairs.
RECURSIVE UrlEncode(_)
UrlEncode(q) ==
    IF q = <<>> THEN <<>>
    ELSE <<q[1][1], "=", q[1][2]>> \o
         (IF Len(q) > 1 THEN <<"&">> ELSE <<>>) \o UrlEncode(Tail(q))

\* The arguments each async operation passes to request(): method, endpoint,
\* query, body, private.
create_order(a) ==
    [method |-> "POST", endpoint |-> "/v1/user/spot/order", query |-> <<>>,
     body |-> <<JsonText(<<<<"pair", "btc_jpy">>, <<"amount", "1">>, <<"side", "buy">>,
                          <<"type", "limit">>>> \o
                        (IF a.price # <<>> THEN <<<<"price", a.price[1]>>>> ELSE <<>>))>>,
     private |-> TRUE]

cancel_order(a) ==
    [method |-> "POST", endpoint |-> "/v1/user/spot/cancel_order", query |-> <<>>,
     body |-> <<JsonText(<<<<"pair", "btc_jpy">>, <<"order_id", a.order_id[1]>>>>)>>,
     private |-> TRUE]

get_order(a) ==
    [method |-> "GET", endpoint |-> "/v1/user/spot/order",
     query |-> <<<<<<"pair", "btc_jpy">>, <<"order_id", a.order_id[1]>>>>>>,
     body |-> <<>>, private |-> TRUE]

get_trade_history(a) ==
    [method |-> "GET", endpoint |-> "/v1/user/spot/trade_history",
     query |-> <<<<<<"pair", "btc_jpy">>>> \o
                 (IF a.order_id # <<>> THEN <<<<"order_id", a.order_id[1]>>>> ELSE <<>>)>>,
     body |-> <<>>, private |-> TRUE]

get_ticker ==
    [method |-> "GET", endpoint |-> "/btc_jpy/ticker", query |-> <<>>, body |-> <<>>,
     private |-> FALSE]

OperationArgs(op, a) ==
    CASE op \in {"submit_order", "create_order_py"} -> create_order(a)
      [] op = "cancel_order_py" -> cancel_order(a)
      [] op = "get_order_py" -> get_order(a)
      [] op = "get_trade_history_py" -> get_trade_history(a)
      [] OTHER -> get_ticker

\* The type T each operation asks request() to decode data into.
ResultType(op) ==
    CASE op \in {"submit_order", "create_order_py", "cancel_order_py", "get_order_py"} -> "order"
      [] op = "get_trade_history_py" -> "trades"
      [] OTHER -> "ticker"

\* hex(HMAC-SHA256(api_secret, text)): a function of the key and the text,
\* kept as the pair it is computed from.
generate_signature(text) == [hmac_key |-> "secret", text |-> text]

path_for_sign(r) ==
    IF r.query # <<>> THEN <<r.endpoint, "?">> \o UrlEncode(r.query[1]) ELSE <<r.endpoint>>

\* Mutant of text_to_sign: the path is signed whatever the method.
text_to_sign_PathAlways(r, ts) == <<ts>> \o path_for_sign(r)

text_to_sign(r, ts) ==
    IF r.method = "GET"
    THEN <<ts>> \o path_for_sign(r)
    ELSE <<ts>> \o (IF r.body # <<>> THEN r.body[1] ELSE <<>>)

\* The request that request() hands to builder.send().
BuiltRequest(r, ts) ==
    [base |-> IF r.private THEN "https://api.bitbank.cc" ELSE "https://public.bitbank.cc",
     method |-> r.method,
     endpoint |-> r.endpoint,
     query |-> r.query,
     body |-> r.body,
     headers |-> IF r.private
                 THEN <<[key |-> "key", nonce |-> ts,
                         signature |-> generate_signature(text_to_sign(r, ts))]>>
                 ELSE <<>>]

\* ---- responses ----
\* What val.get("data") can be.  A field that is absent or is not of the type
\* the code reads (as_i64, as_str, i32) is <<>>; the codes are within i32,
\* where the "as i32" cast of the 2xx branch is the identity; payload is the
\* type the rest of data decodes into.
DataObjects ==
    [code : {<<>>, <<60001>>, <<70001>>, <<70014>>, <<70015>>},
     message : {<<>>, <<"m">>},
     payload : {"order", "trades", "ticker", "none"}]

\* A body that is not JSON.
NotJson == [json |-> FALSE, success |-> <<>>, data |-> <<>>]

Bodies ==
    [json : {TRUE}, success : {<<>>, <<0>>, <<1>>, <<2>>},
     data : {<<>>} \cup {<<d>> : d \in DataObjects}]
    \cup {NotJson}

\* ---- Result<T, BitbankError> ----
Ok(v) ==
    [kind |-> "Ok", value |-> v, code |-> 0, message |-> "", status |-> 0, body |-> NotJson]

\* The variants request() returns: ExchangeError{code, message},
\* Unknown(text naming status and body), ParseError, RequestError.
BitbankError(kind, code, message, status, body) ==
    [kind |-> kind, value |-> "", code |-> code, message |-> message, status |-> status,
     body |-> body]

\* serde_json::from_str::<BitbankErrorResponse>(&text).is_ok()
ParsesAsErrorResponse(b) ==
    /\ b.json
    /\ b.success # <<>>
    /\ b.data # <<>>
    /\ b.data[1].code # <<>>

\* Mutant of request: the HTTP status is not looked at.
request_IgnoresStatus(status, b, T) ==
    IF ~b.json THEN BitbankError("ParseError", 0, "", 0, NotJson)
    ELSE LET success == IF b.success # <<>> THEN b.success[1] ELSE 0
         IN IF success = 1
            THEN IF b.data # <<>>
                 THEN IF b.data[1].payload = T THEN Ok(T)
                      ELSE BitbankError("ParseError", 0, "", 0, NotJson)
                 ELSE BitbankError("Unknown", 0, "Success=1 but no data. Body", 0, b)
            ELSE IF b.data # <<>>
                 THEN BitbankError("ExchangeError",
                          IF b.data[1].code # <<>> THEN b.data[1].code[1] ELSE 0,
                          IF b.data[1].message # <<>> THEN b.data[1].message[1]
                                                      ELSE "Unknown error",
                          0, NotJson)
                 ELSE BitbankError("Unknown", 0, "Success=0 and no data. Body", 0, b)

\* The response handling of request(): status, body text and T to the result.
request(status, b, T) ==
    IF ~(status >= 200 /\ status <= 299)
    THEN IF ParsesAsErrorResponse(b)
         THEN BitbankError("ExchangeError", b.data[1].code[1],
                           IF b.data[1].message # <<>> THEN b.data[1].message[1] ELSE "",
                           0, NotJson)
         ELSE BitbankError("Unknown", 0, "Status, Body", status, b)
    ELSE IF ~b.json THEN BitbankError("ParseError", 0, "", 0, NotJson)
    ELSE LET success == IF b.success # <<>> THEN b.success[1] ELSE 0
         IN IF success = 1
            THEN IF b.data # <<>>
                 THEN IF b.data[1].payload = T THEN Ok(T)
                      ELSE BitbankError("ParseError", 0, "", 0, NotJson)
                 ELSE BitbankError("Unknown", 0, "Success=1 but no data. Body", 0, b)
            ELSE IF b.data # <<>>
                 THEN BitbankError("ExchangeError",
                          IF b.data[1].code # <<>> THEN b.data[1].code[1] ELSE 0,
                          IF b.data[1].message # <<>> THEN b.data[1].message[1]
                                                      ELSE "Unknown error",
                          0, NotJson)
                 ELSE BitbankError("Unknown", 0, "Success=0 and no data. Body", 0, b)

\* ---- conversion to the Python exception ----
PyErr(type, prefix, code, message) ==
    [type |-> type, prefix |-> prefix, code |-> code, message |-> message]

\* The #[error("...")] text of a BitbankError.
to_string(e) ==
    CASE e.kind = "ExchangeError" -> "Exchange Error"
      [] e.kind = "Unknown" -> "Unknown Error"
      [] e.kind = "ParseError" -> "Parse Error"
      [] e.kind = "AuthError" -> "Authentication Error"
      [] OTHER -> "API Request Error"

\* impl From<BitbankError> for PyErr
PyErr_from(e) ==
    IF e.kind = "AuthError" THEN PyErr("PermissionError", "", e.code, e.message)
    ELSE IF e.kind = "ExchangeError"
    THEN IF e.code = 60001
         THEN PyErr("RuntimeError", "Insufficient Funds", e.code, e.message)
         ELSE IF e.code >= 70001 /\ e.code <= 70014
         THEN PyErr("PermissionError", "Auth Error", e.code, e.message)
         ELSE PyErr("RuntimeError", "Bitbank Error", e.code, e.message)
    ELSE PyErr("RuntimeError", to_string(e), e.code, e.message)

\* The map_err each operation applies to the error of request(): PyErr::from
\* in submit_order, PyErr::new::<PyRuntimeError, _>(e.to_string()) in the wrappers.
map_err(op, e) ==
    IF op = "submit_order"
    THEN PyErr_from(e)
    ELSE PyErr("RuntimeError", to_string(e), e.code, e.message)

RestInit ==
    /\ rest_op = "none"
    /\ timestamp = ""
    /\ sent = <<>>
    /\ reply = <<>>
    /\ outcome = <<>>
    /\ raised = <<>>

\* cancel_order_py, get_order_py, get_trade_history_py: the order id does
\* not parse and the call fails before any request is made.
RestInvalidOrderId ==
    /\ rest_op = "none"
    /\ \E op \in {"cancel_order_py", "get_order_py", "get_trade_history_py"} :
       \E a \in RestArgs :
        /\ a.order_id # <<>>
        /\ a.order_id[1] \notin {"1", "2"}
        /\ rest_op' = op
        /\ raised' = <<PyErr("ValueError", "Invalid order_id", 0, "")>>
    /\ UNCHANGED <<timestamp, sent, reply, outcome>>
    /\ RestOnly

\* An operation reads the clock, builds its request and sends it.
RestSend ==
    /\ rest_op = "none"
    /\ \E op \in RestOps : \E a \in RestArgs : \E ts \in Clock :
        /\ op \in {"cancel_order_py", "get_order_py"} => a.order_id # <<>>
        /\ a.order_id # <<>> => a.order_id[1] \in {"1", "2"}
        /\ rest_op' = op
        /\ timestamp' = IF OperationArgs(op, a).private THEN ts ELSE ""
        /\ sent' = <<BuiltRequest(OperationArgs(op, a), ts)>>
    /\ UNCHANGED <<reply, outcome, raised>>
    /\ RestOnly

\* builder.send() or response.text() fails.
RestTransportError ==
    /\ sent # <<>>
    /\ outcome = <<>>
    /\ outcome' = <<BitbankError("RequestError", 0, "", 0, NotJson)>>
    /\ raised' = <<map_err(rest_op, BitbankError("RequestError", 0, "", 0, NotJson))>>
    /\ UNCHANGED <<rest_op, timestamp, sent, reply>>
    /\ RestOnly

\* The response arrives; request() returns and the operation converts an error.
RestReply ==
    /\ sent # <<>>
    /\ outcome = <<>>
    /\ \E status \in {200, 201, 400, 500} : \E b \in Bodies :
        LET res == request(status, b, ResultType(rest_op))
        IN /\ reply' = <<[status |-> status, body |-> b]>>
           /\ outcome' = <<res>>
           /\ raised' = IF res.kind = "Ok" THEN <<>> ELSE <<map_err(rest_op, res)>>
    /\ UNCHANGED <<rest_op, timestamp, sent>>
    /\ RestOnly

\* The call is over; the client holds no state between calls.
RestReturn ==
    /\ rest_op # "none"
    /\ outcome # <<>> \/ raised # <<>>
    /\ rest_op' = "none"
    /\ timestamp' = ""
    /\ sent' = <<>>
    /\ reply' = <<>>
    /\ outcome' = <<>>
    /\ raised' = <<>>
    /\ RestOnly

\* ------------------------------------------------------------------------
\* The receive arm of the feed loop: text frames, the order-book map and the
\* market-data sink
\* ------------------------------------------------------------------------
StreamRooms == {"depth_whole_btc_jpy", "depth_diff_btc_jpy", "ticker_btc_jpy",
                "transactions_btc_jpy", "circuit_break_info_btc_jpy"}

\* room_name.starts_with(...): the prefix the handler recognises, if any; what
\* follows the prefix is the pair, "btc_jpy" for every room of the model.
RoomPrefix(room) ==
    CASE room = "depth_whole_btc_jpy" -> "depth_whole_"
      [] room = "depth_diff_btc_jpy" -> "depth_diff_"
      [] room = "ticker_btc_jpy" -> "ticker_"
      [] room = "transactions_btc_jpy" -> "transactions_"
      [] OTHER -> ""

\* message.data that is not a depth.
NoDepth == [asks |-> <<>>, bids |-> <<>>, timestamp |-> 0, s |-> <<>>]

\* message.data of a frame: what it is shaped like and, for a depth (a JSON
\* object with asks, bids, timestamp and an optional s), its content.
FrameData ==
    [shape : {"depth"},
     depth : {d \in DepthInputs :
                Len(d.asks) + Len(d.bids) <= MaxFrameLevels /\ d.timestamp = 1}]
    \cup [shape : {"ticker", "transactions", "junk"}, depth : {NoDepth}]

\* Text frames: the ping "2", a 42-frame whose nested parse reaches room_name
\* and message.data, and every other text (other engine.io frames, a 42-frame
\* with broken JSON or a missing part).
TextFrames ==
    {[kind |-> "ping", room |-> "", data |-> [shape |-> "junk", depth |-> NoDepth]],
     [kind |-> "malformed", room |-> "", data |-> [shape |-> "junk", depth |-> NoDepth]]}
    \cup [kind : {"message"}, room : StreamRooms, data : FrameData]

\* An object handed to the sink: a Ticker, a Transactions or an OrderBook.
SinkObj(type, b) == [type |-> type, book |-> b]

\* Mutant of on_message: the sink is handed the book as it was before the frame.
on_message_BookBefore(bs, cb, f) ==
    LET prefix == RoomPrefix(f.room)
        isDepth == prefix \in {"depth_whole_", "depth_diff_"}
        pair == "btc_jpy"
        entered == IF isDepth /\ bs[pair] = <<>> THEN [bs EXCEPT ![pair] = <<new_book>>] ELSE bs
        decodes == /\ isDepth
                   /\ f.data.shape = "depth"
                   /\ prefix = "depth_diff_" => f.data.depth.s # <<>>
        updated == IF ~decodes THEN entered
                   ELSE IF prefix = "depth_whole_"
                   THEN [entered EXCEPT ![pair] =
                            <<apply_whole(entered[pair][1], f.data.depth)>>]
                   ELSE [entered EXCEPT ![pair] =
                            <<apply_diff(entered[pair][1],
                                         [f.data.depth EXCEPT !.s = f.data.depth.s[1]])>>]
        parsed_obj == IF decodes THEN <<SinkObj("OrderBook", entered[pair][1])>>
                      ELSE IF prefix = "ticker_" /\ f.data.shape = "ticker"
                      THEN <<SinkObj("Ticker", new_book)>>
                      ELSE IF prefix = "transactions_" /\ f.data.shape = "transactions"
                      THEN <<SinkObj("Transactions", new_book)>>
                      ELSE <<>>
    IN [books |-> updated,
        events |-> IF parsed_obj # <<>> /\ cb
                   THEN <<[room |-> f.room, obj |-> parsed_obj[1]]>>
                   ELSE <<>>]

\* The handling of a 42-frame that parsed down to room_name and message.data:
\* ticker_ and transactions_ payloads are decoded; for a depth room the pair's
\* book is fetched or created, the payload is decoded as Depth or as DepthDiff
\* (s mandatory) and applied, and the book is what goes to the sink.
on_message(bs, cb, f) ==
    LET prefix == RoomPrefix(f.room)
        isDepth == prefix \in {"depth_whole_", "depth_diff_"}
        pair == "btc_jpy"
        entered == IF isDepth /\ bs[pair] = <<>> THEN [bs EXCEPT ![pair] = <<new_book>>] ELSE bs
        decodes == /\ isDepth
                   /\ f.data.shape = "depth"
                   /\ prefix = "depth_diff_" => f.data.depth.s # <<>>
        updated == IF ~decodes THEN entered
                   ELSE IF prefix = "depth_whole_"
                   THEN [entered EXCEPT ![pair] =
                            <<apply_whole(entered[pair][1], f.data.depth)>>]
                   ELSE [entered EXCEPT ![pair] =
                            <<apply_diff(entered[pair][1],
                                         [f.data.depth EXCEPT !.s = f.data.depth.s[1]])>>]
        parsed_obj == IF decodes THEN <<SinkObj("OrderBook", updated[pair][1])>>
                      ELSE IF prefix = "ticker_" /\ f.data.shape = "ticker"
                      THEN <<SinkObj("Ticker", new_book)>>
                      ELSE IF prefix = "transactions_" /\ f.data.shape = "transactions"
                      THEN <<SinkObj("Transactions", new_book)>>
                      ELSE <<>>
    IN [books |-> updated,
        events |-> IF parsed_obj # <<>> /\ cb
                   THEN <<[room |-> f.room, obj |-> parsed_obj[1]]>>
                   ELSE <<>>]

\* Mutant of on_text: the ping is read and not answered.
on_text_NoPong(bs, cb, f) ==
    IF f.kind = "message"
    THEN [books |-> on_message(bs, cb, f).books,
          events |-> on_message(bs, cb, f).events,
          writes |-> <<>>]
    ELSE [books |-> bs, events |-> <<>>, writes |-> <<>>]

\* One text frame read by the receive arm: the ping "2" is answered with the
\* pong "3" (send result discarded), a 42-frame goes through the nested parse,
\* any other text does nothing.
on_text(bs, cb, f) ==
    IF f.kind = "ping"
    THEN [books |-> bs, events |-> <<>>, writes |-> <<PongFrame>>]
    ELSE IF f.kind = "message"
    THEN [books |-> on_message(bs, cb, f).books,
          events |-> on_message(bs, cb, f).events,
          writes |-> <<>>]
    ELSE [books |-> bs, events |-> <<>>, writes |-> <<>>]

StreamInit ==
    /\ books = [p \in {"btc_jpy"} |-> <<>>]
    /\ data_callback = FALSE
    /\ frame = [kind |-> "none", room |-> "", shape |-> "junk"]
    /\ delivered = <<>>
    /\ wrote = <<>>

set_data_callback ==
    /\ data_callback' = TRUE
    /\ UNCHANGED <<books, frame, delivered, wrote>>
    /\ StreamOnly

\* One iteration of the receive arm on a text frame.
RecvText ==
    /\ \E f \in TextFrames :
        /\ books' = on_text(books, data_callback, f).books
        /\ delivered' = on_text(books, data_callback, f).events
        /\ wrote' = on_text(books, data_callback, f).writes
        /\ frame' = [kind |-> f.kind, room |-> f.room, shape |-> f.data.shape]
    /\ UNCHANGED data_callback
    /\ StreamOnly

\* ------------------------------------------------------------------------
\* Lock scopes: the code blocks that take the SubscriptionSet lock, the
\* order-book map lock, the OrderStateCache lock or the ClientOrderIdMap lock,
\* statement by statement.  A guard is released where its scope ends.
\* ------------------------------------------------------------------------
\* The start of a connection: the handshake send, then the re-join block over
\* n rooms: lock the set, one send per room, end of the block.
ReplayBlock(n) ==
    <<[op |-> "send", lock |-> ""], [op |-> "acquire", lock |-> "subscriptions"]>>
    \o [i \in 1..n |-> [op |-> "send", lock |-> ""]]
    \o <<[op |-> "release", lock |-> "subscriptions"]>>

\* The handling of a depth frame: write-lock the map, get or create the book,
\* apply and clone when the payload decodes, end of the block; then clone the
\* sink out of its slot and call it.
DepthFrameBlock(decodes, cb) ==
    <<[op |-> "acquire", lock |-> "books"], [op |-> "entry", lock |-> ""]>>
    \o (IF decodes
        THEN <<[op |-> "apply", lock |-> ""], [op |-> "clone", lock |-> ""]>>
        ELSE <<>>)
    \o <<[op |-> "release", lock |-> "books"]>>
    \o (IF decodes
        THEN <<[op |-> "acquire", lock |-> "data_callback"],
               [op |-> "release", lock |-> "data_callback"]>>
             \o (IF cb THEN <<[op |-> "callback", lock |-> ""]>> ELSE <<>>)
        ELSE <<>>)

\* The consumer's loop with the sink called inside the cache block.
RECURSIVE OrderEventBlock_CallbackUnderLock(_, _, _)
OrderEventBlock_CallbackUnderLock(decoded, update, cb) ==
    IF decoded = <<>> THEN <<>>
    ELSE (IF update /\ Head(decoded)
          THEN <<[op |-> "acquire", lock |-> "orders"], [op |-> "insert", lock |-> ""]>>
          ELSE <<>>)
         \o <<[op |-> "acquire", lock |-> "order_callback"],
              [op |-> "release", lock |-> "order_callback"]>>
         \o (IF cb THEN <<[op |-> "callback", lock |-> ""]>> ELSE <<>>)
         \o (IF update /\ Head(decoded)
             THEN <<[op |-> "release", lock |-> "orders"]>>
             ELSE <<>>)
         \o OrderEventBlock_CallbackUnderLock(Tail(decoded), update, cb)

\* The consumer's loop over the params of one message: for an OrderUpdate
\* param that decodes, write-lock the cache, insert, end of the block; then
\* clone the sink out of its slot and call it.
RECURSIVE OrderEventBlock(_, _, _)
OrderEventBlock(decoded, update, cb) ==
    IF decoded = <<>> THEN <<>>
    ELSE (IF update /\ Head(decoded)
          THEN <<[op |-> "acquire", lock |-> "orders"], [op |-> "insert", lock |-> ""],
                 [op |-> "release", lock |-> "orders"]>>
          ELSE <<>>)
         \o <<[op |-> "acquire", lock |-> "order_callback"],
              [op |-> "release", lock |-> "order_callback"]>>
         \o (IF cb THEN <<[op |-> "callback", lock |-> ""]>> ELSE <<>>)
         \o OrderEventBlock(Tail(decoded), update, cb)

\* submit_order: create_order, then one block per insert, then the read-back
\* under the read lock, which is held until the future ends.
SubmitBlock(created) ==
    <<[op |-> "create_order", lock |-> ""]>>
    \o (IF created
        THEN <<[op |-> "acquire", lock |-> "orders"], [op |-> "insert", lock |-> ""],
               [op |-> "release", lock |-> "orders"],
               [op |-> "acquire", lock |-> "client_oid_map"], [op |-> "insert", lock |-> ""],
               [op |-> "release", lock |-> "client_oid_map"],
               [op |-> "acquire", lock |-> "orders"], [op |-> "read", lock |-> ""],
               [op |-> "serialize", lock |-> ""], [op |-> "release", lock |-> "orders"]>>
        ELSE <<>>)

LocksInit ==
    /\ block = <<>>
    /\ held = {}
    /\ trace = <<>>

\* A task enters one of the blocks.
BlockBegin ==
    /\ block = <<>>
    /\ block' \in
          {ReplayBlock(n) : n \in 0..Cardinality(Rooms)}
          \cup {DepthFrameBlock(d, cb) : d \in BOOLEAN, cb \in BOOLEAN}
          \cup {OrderEventBlock(ds, u, cb) :
                    ds \in UNION {[1..k -> BOOLEAN] : k \in 1..MaxParams},
                    u \in BOOLEAN, cb \in BOOLEAN}
          \cup {SubmitBlock(c) : c \in BOOLEAN}
    /\ block' # <<>>
    /\ held' = {}
    /\ trace' = <<>>
    /\ LocksOnly

\* The task executes the next statement of its block.
BlockStep ==
    /\ block # <<>>
    /\ block' = Tail(block)
    /\ held' = CASE Head(block).op = "acquire" -> held \cup {Head(block).lock}
                 [] Head(block).op = "release" -> held \ {Head(block).lock}
                 [] OTHER -> held
    /\ trace' = Append(trace, [op |-> Head(block).op, held |-> held'])
    /\ LocksOnly

\* ------------------------------------------------------------------------
\* The feed loops of one BitbankDataClient: every connect() call makes a new
\* command channel, stores its sender in the client's slot and spawns a loop
\* that owns the receiver.  The loops share the books, the subscriptions and
\* the sink.
\* ------------------------------------------------------------------------
ReconnInit ==
    /\ loops = [l \in 1..MaxLoops |-> "unspawned"]
    /\ slot = 0
    /\ handled = [l \in 1..MaxLoops |-> 0]

\* connect(): *lock = Some(tx) replaces the sender the slot held, which drops
\* it; a new loop is spawned and starts with connect_async.
ConnectCall ==
    /\ \E l \in 1..MaxLoops :
        /\ loops[l] = "unspawned"
        /\ \A k \in 1..MaxLoops : k < l => loops[k] # "unspawned"
        /\ slot' = l
        /\ loops' = [loops EXCEPT ![l] = "connecting"]
    /\ UNCHANGED handled
    /\ UNCHANGED <<feedVars, pollVars, bookVars, execVars, restVars, streamVars, lockVars>>

\* connect_async returned Ok: handshake and re-join are sent (a failed
\* handshake send goes back to connect_async), then the select loop starts.
LoopConnectOk(l) ==
    /\ loops[l] = "connecting"
    /\ \E handshake \in BOOLEAN :
        loops' = [loops EXCEPT ![l] = IF handshake THEN "streaming" ELSE "connecting"]
    /\ UNCHANGED <<slot, handled>>
    /\ UNCHANGED <<feedVars, pollVars, bookVars, execVars, restVars, streamVars, lockVars>>

\* connect_async returned Err: sleep(backoff_sec).
LoopConnectFail(l) ==
    /\ loops[l] = "connecting"
    /\ loops' = [loops EXCEPT ![l] = "sleeping"]
    /\ UNCHANGED <<slot, handled>>
    /\ UNCHANGED <<feedVars, pollVars, bookVars, execVars, restVars, streamVars, lockVars>>

\* select! takes the read.next() arm with a text frame: the frame is handled
\* (book update under the shared map's lock, sink call).
LoopFrame(l) ==
    /\ loops[l] = "streaming"
    /\ handled[l] < MaxHandled
    /\ handled' = [handled EXCEPT ![l] = handled[l] + 1]
    /\ UNCHANGED <<loops, slot>>
    /\ UNCHANGED <<feedVars, pollVars, bookVars, execVars, restVars, streamVars, lockVars>>

\* select! takes the read.next() arm with Close, an error or the end of the
\* stream: break, sleep(backoff_sec).
LoopBreak(l) ==
    /\ loops[l] = "streaming"
    /\ loops' = [loops EXCEPT ![l] = "sleeping"]
    /\ UNCHANGED <<slot, handled>>
    /\ UNCHANGED <<feedVars, pollVars, bookVars, execVars, restVars, streamVars, lockVars>>

\* select! takes the rx.recv() arm with None, which the receiver yields once
\* its sender is no longer in the slot: return.
LoopClosed(l) ==
    /\ loops[l] = "streaming"
    /\ slot # l
    /\ loops' = [loops EXCEPT ![l] = "ended"]
    /\ UNCHANGED <<slot, handled>>
    /\ UNCHANGED <<feedVars, pollVars, bookVars, execVars, restVars, streamVars, lockVars>>

\* sleep(backoff_sec) is over: loop, connect_async again.
LoopWake(l) ==
    /\ loops[l] = "sleeping"
    /\ loops' = [loops EXCEPT ![l] = "connecting"]
    /\ UNCHANGED <<slot, handled>>
    /\ UNCHANGED <<feedVars, pollVars, bookVars, execVars, restVars, streamVars, lockVars>>

\* ------------------------------------------------------------------------
\* Specifications
\* ------------------------------------------------------------------------
Init ==
    /\ FeedInit /\ PollInit /\ BookInit /\ ExecInit /\ RestInit /\ StreamInit
    /\ LocksInit
    /\ ReconnInit

\* MarketDataFeed
Next ==
    \/ Connect
    \/ Subscribe
    \/ Disconnect
    \/ ConnectOk
    \/ ConnectFail
    \/ HandshakeOk
    \/ HandshakeFail
    \/ RecvPing
    \/ RecvTerminal
    \/ RecvCommand
    \/ RecvClosed
    \/ Wake

Spec == Init /\ [][Next]_vars

\* MarketDataFeed with the backoff sleep completing: sleep(backoff_sec) returns.
SpecFair == Spec /\ WF_vars(Wake)

\* PrivateFeedClient
NextPoll ==
    \/ ExecConnect
    \/ SetCallback
    \/ AuthFetchOk
    \/ AuthFetchFail
    \/ RefreshWake
    \/ PollIssue
    \/ PollStop
    \/ PollOk
    \/ PollAuthExpired
    \/ PollFail
    \/ PollWake
    \/ Stop

SpecPoll == Init /\ [][NextPoll]_vars

\* PrivateFeedClient with the sleeps of the token-refresh loop completing:
\* tokio::time::sleep(5 s / 10 s) returns.
SpecPollFair == SpecPoll /\ WF_vars(RefreshWake)

\* OrderBook
NextBook ==
    \/ ApplyWhole
    \/ ApplyDiff

SpecBook == Init /\ [][NextBook]_vars

\* ExecutionCoordinator
NextExec ==
    \/ SetOrderCallback
    \/ \E c \in Callers : SubmitOrder(c)
    \/ \E c \in Callers : CreateOk(c)
    \/ \E c \in Callers : CreateFail(c)
    \/ \E c \in Callers : InsertOrder(c)
    \/ \E c \in Callers : InsertMap(c)
    \/ \E c \in Callers : ReadBack(c)
    \/ GetOrder
    \/ CancelOrder
    \/ GetTradeHistory
    \/ ConsumeUnparsed
    \/ ConsumeParsed
    \/ ConsumeParam

SpecExec == Init /\ [][NextExec]_vars

\* SignedRestClient
NextRest ==
    \/ RestInvalidOrderId
    \/ RestSend
    \/ RestTransportError
    \/ RestReply
    \/ RestReturn

SpecRest == Init /\ [][NextRest]_vars

\* The receive arm of the feed loop
NextStream ==
    \/ set_data_callback
    \/ RecvText

SpecStream == Init /\ [][NextStream]_vars

\* Lock scopes
NextLocks ==
    \/ BlockBegin
    \/ BlockStep

SpecLocks == Init /\ [][NextLocks]_vars

\* Feed loops of one client
NextReconnect ==
    \/ ConnectCall
    \/ \E l \in 1..MaxLoops : LoopConnectOk(l)
    \/ \E l \in 1..MaxLoops : LoopConnectFail(l)
    \/ \E l \in 1..MaxLoops : LoopFrame(l)
    \/ \E l \in 1..MaxLoops : LoopBreak(l)
    \/ \E l \in 1..MaxLoops : LoopClosed(l)
    \/ \E l \in 1..MaxLoops : LoopWake(l)

SpecReconnect == Init /\ [][NextReconnect]_vars

\* ------------------------------------------------------------------------
\* Claims about MarketDataFeed (checked under Spec)
\* ------------------------------------------------------------------------
\* The command channel has been released: disconnect ran after connect.
Released == sender = "none" /\ pc # "idle"

\* A connect_async call is started by this step.
AttemptStarts == pc # "connecting" /\ pc' = "connecting"

\* C1: once the command channel is released the loop makes no further
\* connection attempt, whatever it was doing when the channel was released.
C1_NoAttemptAfterRelease == [][Released => ~AttemptStarts]_vars

IsReplay(frames, S) ==
    /\ Len(frames) = 1 + Cardinality(S)
    /\ frames[1] = HandshakeFrame
    /\ \A r \in S : Cardinality({i \in 2..Len(frames) : frames[i] = JoinFrame(r)}) = 1

\* C4: every successful handshake is followed by exactly one join per room of
\* SubscriptionSet, nothing else is written before them on that connection
\* (later frames are only appended), and no room ever leaves SubscriptionSet.
C4_ReplayOnReconnect ==
    /\ [][(pc = "handshake" /\ pc' = "streaming") => IsReplay(written', subscriptions)]_vars
    /\ [][(pc = "streaming" /\ pc' = "streaming")
            => (Len(written') >= Len(written)
                /\ SubSeq(written', 1, Len(written)) = written)]_vars
    /\ [][subscriptions \subseteq subscriptions']_vars

\* A reconnect with two rooms in SubscriptionSet has just replayed both.
C4_Witness ==
    /\ pc = "streaming"
    /\ connections = 2
    /\ Cardinality(replayed) = 2
    /\ Len(written) = 3
    /\ IsReplay(written, subscriptions)

\* C5: the N-th consecutive sleep since the last successful connect_async (or
\* since the start) lasts min(2^(N-1), 64), and a successful connect_async
\* puts the delay back to 1.
C5_BackoffShape ==
    /\ pc = "sleeping" => (retries >= 1 /\ backoff_sec = Min(Pow2(retries - 1), 64))
    /\ pc \in {"handshake", "streaming"} => backoff_sec = 1

\* After a successful connection, the eighth sleep in a row uses the cap.
C5_Witness ==
    /\ pc = "sleeping"
    /\ connections >= 1
    /\ retries = 8
    /\ backoff_sec = 64

\* ------------------------------------------------------------------------
\* Claims about PrivateFeedClient (checked under SpecPoll)
\* ------------------------------------------------------------------------
\* A long-poll request, or an auth fetch, is issued by this step.
PollStarts == inner # "inflight" /\ inner' = "inflight"
FetchStarts == outer # "fetching" /\ outer' = "fetching"

\* C2: after stop_py no further poll request and no further auth fetch is
\* issued (a request already in flight may complete), wherever the loops were.
C2_NoRequestAfterStop == [][stopCalled => (~PollStarts /\ ~FetchStarts)]_vars

\* A 2xx response is handled by this step.
PollSucceeds == inner = "inflight" /\ inner' = "top"

\* C14: every message of a successful response is forwarded, in array order,
\* to the internal channel and (when a sink is registered) to the sink, one
\* send and one call per message, whatever the outcome of any of them.
C14_ForwardAllInOrder ==
    [][PollSucceeds =>
        /\ Len(chan_log') = Len(response')
        /\ \A i \in 1..Len(response') : chan_log'[i].text = Serialize(response'[i])
        /\ callback =>
            /\ Len(sink_log') = Len(response')
            /\ \A i \in 1..Len(response') : sink_log'[i].text = Serialize(response'[i])]_vars

\* Two different messages were forwarded to both destinations although every
\* channel send and the first sink call failed.
C14_Witness ==
    /\ inner = "top"
    /\ Len(response) = 2
    /\ response[1].id = "a" /\ response[1].form = "spaced"
    /\ response[2].id = "b"
    /\ Len(chan_log) = 2 /\ ~chan_log[1].ok /\ ~chan_log[2].ok
    /\ chan_log[1].text.id = "a" /\ chan_log[2].text.id = "b"
    /\ Len(sink_log) = 2 /\ ~sink_log[1].ok /\ sink_log[2].ok
    /\ sink_log[1].text.id = "a" /\ sink_log[2].text.id = "b"

\* C15: a 401/403 ends the attempt in the same step, with no backoff delay
\* and no further poll with that token; the outer loop goes to its short
\* wait, and from there to a new auth fetch.
C15_AuthExpiredEndsAttempt ==
    /\ [](auth \in expired => inner = "none")
    /\ [][expired' # expired =>
            /\ inner = "inflight" /\ inner' = "none"
            /\ outer' = "wait_refresh"
            /\ poll_backoff' = poll_backoff]_vars
    /\ [][(outer = "wait_refresh" /\ outer' # outer) => outer' = "fetching"]_vars

\* After two failed polls and their delays a poll was answered 401/403 and the
\* outer loop is in its short wait.
C15_Witness ==
    /\ outer = "wait_refresh"
    /\ inner = "none"
    /\ auth = 1 /\ expired = {1}
    /\ poll_backoff = 4

\* C16: a failed poll (not 401/403) leads to a delay and back to the top of the
\* loop with the same token and cursor; the delay after the k-th consecutive
\* failure is min(2^(k-1), 64); a successful poll resets the next delay to 1.
C16_PollBackoffShape ==
    /\ [](inner = "sleeping" =>
            (poll_retries >= 1 /\ poll_backoff = Min(Pow2(poll_retries - 1), 64)))
    /\ [][poll_retries' = poll_retries + 1 =>
            (inner' = "sleeping" /\ auth' = auth /\ timetoken' = timetoken)]_vars
    /\ [][(inner = "sleeping" /\ inner' # inner) =>
            (inner' = "top" /\ outer' = "polling" /\ auth' = auth /\ timetoken' = timetoken)]_vars
    /\ [][PollSucceeds => poll_backoff' = 1]_vars

\* The eighth consecutive failure, after a response had set the cursor: the
\* delay has reached the cap.
C16_Witness ==
    /\ inner = "sleeping"
    /\ poll_retries = 8
    /\ poll_backoff = 64
    /\ timetoken = "t1"

\* C17: an attempt starts only in the step that completes an auth fetch, begun
\* after the previous attempt ended, and polls with that fetch's parameters;
\* no poll is made with a token that was answered 401/403.
C17_FreshAuthPerAttempt ==
    /\ [](outer \in {"fetching", "wait_retry", "wait_refresh"} => inner = "none")
    /\ [](inner # "none" => (auth = fetches /\ auth \notin expired))
    /\ [][(inner = "none" /\ inner' # "none") =>
            (outer = "fetching" /\ fetches' = fetches + 1 /\ auth' = fetches')]_vars

\* The second attempt polls with the second fetch's token after the first
\* token expired.
C17_Witness ==
    /\ inner = "inflight"
    /\ auth = 2
    /\ fetches = 2
    /\ expired = {1}

\* ------------------------------------------------------------------------
\* Claims about OrderBook (checked under SpecBook)
\* ------------------------------------------------------------------------
\* The well-formed levels of a list that name price p.
LevelsAt(levels, p) == {i \in 1..Len(levels) : Len(levels[i]) >= 2 /\ levels[i][1] = p}

\* The last of them.
LastAt(levels, p) ==
    CHOOSE i \in LevelsAt(levels, p) : \A j \in LevelsAt(levels, p) : j <= i

\* The ladder a snapshot's level list describes: its prices, each with the
\* amount of its last level.
SnapshotLadder(levels) ==
    [p \in {q \in Prices : LevelsAt(levels, q) # {}} |-> levels[LastAt(levels, p)][2]]

\* The spellings of a zero amount the exchange sends.
ZeroAmounts == {"0", "0.0000"}

\* A ladder with a diff's level list merged in: a price whose last level is
\* zero is absent, a price whose last level is non-zero has that amount, any
\* other price is as before.
MergedLadder(ladder, levels) ==
    [p \in {q \in Prices :
                IF LevelsAt(levels, q) = {}
                THEN q \in DOMAIN ladder
                ELSE levels[LastAt(levels, q)][2] \notin ZeroAmounts}
        |-> IF LevelsAt(levels, p) = {} THEN ladder[p] ELSE levels[LastAt(levels, p)][2]]

\* The number a price string spells.
RECURSIVE NumVal(_)
NumVal(price) ==
    IF price = <<>> THEN 0
    ELSE 10 * NumVal(SubSeq(price, 1, Len(price) - 1)) + price[Len(price)]

\* C6 as stated: no operation on the book lowers its sequence number.
C6_SequenceNeverDecreases == [][book'.sequence >= book.sequence]_vars

\* C6 amended: apply_diff never lowers the sequence number (only apply_whole,
\* which sets the snapshot's sequence unconditionally, can).
C6_DiffNeverDecreases ==
    [][lastOp' \in {"diff_applied", "diff_ignored"} => book'.sequence >= book.sequence]_vars

\* An accepted diff has raised the sequence to 2.
C6_Witness == lastOp = "diff_applied" /\ book.sequence = 2

\* C7: a diff at or below the book's sequence changes nothing; the same diff
\* applied twice gives what one application gives; and after diff(s2) the
\* sequence is at least s2, so that a diff(s1) with s1 < s2 (here: the same
\* payload under every lower sequence) changes nothing.
C7_StaleDiffIsNoOp ==
    \A d \in DepthDiffInputs :
        /\ d.s <= book.sequence => apply_diff(book, d) = book
        /\ apply_diff(apply_diff(book, d), d) = apply_diff(book, d)
        /\ apply_diff(book, d).sequence >= d.s
        /\ \A s1 \in 0..(d.s - 1) :
            apply_diff(apply_diff(book, d), [d EXCEPT !.s = s1]) = apply_diff(book, d)

\* A stale diff that would have changed the asks was ignored.
C7_Witness ==
    /\ lastOp = "diff_ignored"
    /\ book.sequence = 2
    /\ \E d \in DepthDiffInputs :
        /\ d.s <= book.sequence
        /\ DiffLevels(book.asks, d.asks) # book.asks
        /\ d.timestamp # book.timestamp
        /\ apply_diff(book, d) = book

\* C8: whatever the book holds, after apply_whole both ladders are exactly the
\* snapshot's, the sequence is the snapshot's (0 if absent) and the timestamp
\* is the snapshot's.
C8_WholeReplaces ==
    \A depth \in DepthInputs :
        /\ apply_whole(book, depth).asks = SnapshotLadder(depth.asks)
        /\ apply_whole(book, depth).bids = SnapshotLadder(depth.bids)
        /\ apply_whole(book, depth).sequence = (IF depth.s = <<>> THEN 0 ELSE depth.s[1])
        /\ apply_whole(book, depth).timestamp = depth.timestamp

\* A book built by diffs, at sequence 2 with both asks, is emptied on the ask
\* side and put back to sequence 0 by a snapshot that carries no sequence.
C8_Witness ==
    /\ lastOp = "diff_applied"
    /\ book.sequence = 2
    /\ DOMAIN book.asks = {P101, P102}
    /\ \E depth \in DepthInputs :
        /\ depth.s = <<>>
        /\ depth.asks = <<>>
        /\ depth.bids = <<<<P99, "1">>>>
        /\ apply_whole(book, depth).asks = EmptyLadder
        /\ DOMAIN apply_whole(book, depth).bids = {P99}
        /\ apply_whole(book, depth).sequence = 0

\* One side of C9: prices the diff does not name are untouched, and a price
\* whose (last) level has amount "0" is absent afterwards.
ZeroRemoves(before, levels, after) ==
    \A p \in Prices :
        /\ LevelsAt(levels, p) = {} =>
            /\ p \in DOMAIN after <=> p \in DOMAIN before
            /\ p \in DOMAIN before => after[p] = before[p]
        /\ (LevelsAt(levels, p) # {} /\ levels[LastAt(levels, p)][2] = "0") =>
            p \notin DOMAIN after

\* C9: in an accepted diff a level with amount "0" removes its price, present
\* or not, and the prices the diff does not name keep their levels.
C9_ZeroDeletes ==
    \A d \in DepthDiffInputs :
        d.s > book.sequence =>
            /\ ZeroRemoves(book.asks, d.asks, apply_diff(book, d).asks)
            /\ ZeroRemoves(book.bids, d.bids, apply_diff(book, d).bids)

\* With asks 101 and 102 in the book, an accepted diff 101 -> "0" leaves 102.
C9_Witness ==
    /\ lastOp = "whole"
    /\ DOMAIN book.asks = {P101, P102}
    /\ book.asks[P101] # "0"
    /\ \E d \in DepthDiffInputs :
        /\ d.s > book.sequence
        /\ d.asks = <<<<P101, "0">>>>
        /\ DOMAIN apply_diff(book, d).asks = {P102}
        /\ apply_diff(book, d).asks[P102] = book.asks[P102]
        /\ apply_diff(apply_diff(book, d), [d EXCEPT !.s = MaxSeq + 1]).asks
            = apply_diff(book, d).asks

\* A list of levels runs from the highest price to the lowest.
HighestFirst(list) ==
    \A i, j \in 1..Len(list) : i < j => NumVal(list[i][1]) > NumVal(list[j][1])

\* C10: a snapshot followed by an accepted diff gives the snapshot's levels
\* with the diff merged in, get_bids lists the bids highest first, and the
\* sequence and timestamp are the diff's.
C10_SnapshotThenDiff ==
    lastOp = "whole" =>
        \A d \in DepthDiffInputs :
            d.s > book.sequence =>
                /\ apply_diff(book, d).asks = MergedLadder(book.asks, d.asks)
                /\ apply_diff(book, d).bids = MergedLadder(book.bids, d.bids)
                /\ Range(get_bids(apply_diff(book, d)))
                    = {<<p, apply_diff(book, d).bids[p]>> : p \in DOMAIN apply_diff(book, d).bids}
                /\ HighestFirst(get_bids(apply_diff(book, d)))
                /\ apply_diff(book, d).sequence = d.s
                /\ apply_diff(book, d).timestamp = d.timestamp

\* A list of levels runs from the lowest price to the highest.
LowestFirst(list) ==
    \A i, j \in 1..Len(list) : i < j => NumVal(list[i][1]) < NumVal(list[j][1])

\* C11: in every book state get_asks lists the asks in ascending order and
\* get_bids the bids in descending order of the numeric value of the price,
\* also when the price strings differ in digit count.
C11_NumericOrder ==
    /\ LowestFirst(get_asks(book))
    /\ HighestFirst(get_bids(book))

\* ------------------------------------------------------------------------
\* Claims about ExecutionCoordinator (checked under SpecExec)
\* ------------------------------------------------------------------------
\* The consumer works off one entry of the current message's params.
ParamStep == pending # <<>> /\ pending' = Tail(pending)

\* The entries of the current message worked off so far.
Done == Len(current.params) - Len(pending)

UnparsedStep ==
    /\ pending = <<>>
    /\ ~current'.parses
    /\ current' # current \/ event_type' # event_type

\* C13: a message whose envelope does not parse is not dropped: one event
\* ("Unknown", the message text) goes to the registered sink, and the cache
\* and the client-id map are unchanged.
C13_UnparsedForwarded ==
    /\ [][UnparsedStep =>
            /\ order_callback => events' = <<<<"Unknown", current'.text>>>>
            /\ event_type' = "Unknown"
            /\ pending' = <<>>
            /\ orders' = orders
            /\ client_oid_map' = client_oid_map]_vars
    /\ [](event_type = "Unknown" =>
            (~current.parses /\ events \in {<<>>, <<<<"Unknown", current.text>>>>}))

\* With an order in the cache, the second unparsable text was forwarded as it
\* came.
C13_Witness ==
    /\ event_type = "Unknown"
    /\ current = [parses |-> FALSE, text |-> "[]"]
    /\ events = <<<<"Unknown", "[]">>>>
    /\ DOMAIN orders = {1}

\* C18: once submit_order's create_order has succeeded, the cache holds an
\* entry under the returned exchange id from the insert on; when the call
\* returns, the client-id map takes the supplied client order id to that id
\* and the result is the serialized Order stored under that id.
C18_SubmitTracksOrder ==
    /\ [](\A c \in Callers :
            /\ calls[c].pc \in {"insert_map", "read_back", "returned"} =>
                /\ calls[c].oid \in DOMAIN orders
                /\ orders[calls[c].oid].order_id = calls[c].oid
            /\ calls[c].pc \in {"read_back", "returned"} =>
                /\ calls[c].cid \in DOMAIN client_oid_map
                /\ client_oid_map[calls[c].cid] = calls[c].oid
            /\ calls[c].pc = "returned" =>
                \E st \in {"UNFILLED", "FILLED"} :
                    calls[c].result = OrderJson(Order(calls[c].oid, st)))
    /\ [][\A c \in Callers :
            (calls[c].pc = "read_back" /\ calls'[c].pc = "returned") =>
                calls'[c].result = OrderJson(orders[calls[c].oid])]_vars

\* Both callers' orders were created and both calls have returned.
C18_Witness ==
    /\ calls[1].pc = "returned"
    /\ calls[2].pc = "returned"
    /\ calls[1].oid # calls[2].oid
    /\ DOMAIN orders = {1, 2}
    /\ DOMAIN client_oid_map = {"c1", "c2"}
    /\ client_oid_map[calls[1].cid] = calls[1].oid
    /\ calls[1].result = OrderJson(Order(calls[1].oid, "UNFILLED"))

\* C19: when create_order fails the call ends with the error, and that step
\* changes neither the cache nor the client-id map; the client order id of a
\* failed call is not in the map.
C19_FailedSubmitChangesNothing ==
    /\ [][\A c \in Callers :
            (calls[c].pc = "creating" /\ calls'[c].pc = "failed") =>
                /\ calls'[c].result \in {<<"error", "transport">>, <<"error", "exchange">>}
                /\ orders' = orders
                /\ client_oid_map' = client_oid_map]_vars
    /\ [](\A c \in Callers :
            calls[c].pc = "failed" =>
                /\ calls[c].cid \notin DOMAIN client_oid_map
                /\ calls[c].result[1] = "error")

\* One call was rejected by the exchange while the other's order is tracked.
C19_Witness ==
    /\ calls[1].pc = "failed"
    /\ calls[1].result = <<"error", "exchange">>
    /\ calls[2].pc = "returned"
    /\ DOMAIN orders = {calls[2].oid}
    /\ DOMAIN client_oid_map = {calls[2].cid}

\* C20: a get_order, cancel_order or get_trade_history call changes neither
\* the cache nor the client-id map.
C20_PassThroughReadOnly ==
    [][lastCall' \in {"get_order", "cancel_order", "get_trade_history"} =>
        (orders' = orders /\ client_oid_map' = client_oid_map)]_vars

\* An order was submitted and then cancelled: the cache still shows it as it
\* was returned by create_order.
C20_Witness ==
    /\ lastCall = "cancel_order"
    /\ calls[1].pc = "returned"
    /\ calls[1].oid = 1
    /\ DOMAIN orders = {1}
    /\ orders[1].status = "UNFILLED"
    /\ client_oid_map[calls[1].cid] = 1

\* ------------------------------------------------------------------------
\* Claims about SignedRestClient (checked under SpecRest)
\* ------------------------------------------------------------------------
\* The body is an error envelope: an integer success and data with an
\* integer code (message is optional in the envelope type).
IsErrorEnvelope(b) ==
    b.json /\ b.success # <<>> /\ b.data # <<>> /\ b.data[1].code # <<>>

Replied == reply # <<>> /\ outcome # <<>>

\* C21: the result of request follows from status and body: non-2xx with an
\* error envelope is ExchangeError(code, message), non-2xx otherwise is the
\* generic error with status and raw body, 2xx with success 1 is data decoded
\* into the requested type, 2xx with success 0 is ExchangeError with
\* data.code and data.message.
C21_ResultByStatusAndBody ==
    Replied =>
        LET st == reply[1].status
            b == reply[1].body
            res == outcome[1]
            twoxx == st \in 200..299
        IN /\ (~twoxx /\ IsErrorEnvelope(b)) =>
                /\ res.kind = "ExchangeError"
                /\ res.code = b.data[1].code[1]
                /\ b.data[1].message # <<>> => res.message = b.data[1].message[1]
           /\ (~twoxx /\ ~IsErrorEnvelope(b)) =>
                /\ res.kind = "Unknown"
                /\ res.status = st
                /\ res.body = b
           /\ (twoxx /\ b.json /\ b.success = <<1>> /\ b.data # <<>>
                  /\ b.data[1].payload = ResultType(rest_op)) =>
                /\ res.kind = "Ok"
                /\ res.value = b.data[1].payload
           /\ (twoxx /\ b.json /\ b.success = <<0>> /\ b.data # <<>>
                  /\ b.data[1].code # <<>> /\ b.data[1].message # <<>>) =>
                /\ res.kind = "ExchangeError"
                /\ res.code = b.data[1].code[1]
                /\ res.message = b.data[1].message[1]

\* A 400 whose body is an error envelope came back as the exchange error.
C21_Witness ==
    /\ Replied
    /\ reply[1].status = 400
    /\ IsErrorEnvelope(reply[1].body)
    /\ reply[1].body.data[1].message = <<"m">>
    /\ outcome[1].kind = "ExchangeError"
    /\ outcome[1].code = 70001
    /\ outcome[1].message = "m"

\* C22: no value is silently defaulted: a 2xx JSON body without a usable
\* success field, or a success 0 body without data.code or data.message,
\* gives a decode error, not an ExchangeError built from defaults.
C22_NoSilentDefault ==
    (Replied /\ reply[1].status \in 200..299 /\ reply[1].body.json) =>
        LET b == reply[1].body
            res == outcome[1]
        IN /\ b.success = <<>> => res.kind = "ParseError"
           /\ (b.success = <<0>> /\ b.data # <<>>
                 /\ (b.data[1].code = <<>> \/ b.data[1].message = <<>>)) =>
                res.kind = "ParseError"

\* The four operations C23 names.
CategorizedOps == {"submit_order", "cancel_order_py", "get_order_py", "get_trade_history_py"}

\* C23: an ExchangeError that reaches the caller of submit, cancel, get_order
\* or get_trade_history is categorized by its code: 60001 insufficient funds,
\* 70001..70014 a permission error, any other code a generic exchange error.
C23_ExchangeErrorCategorized ==
    (rest_op \in CategorizedOps /\ outcome # <<>> /\ outcome[1].kind = "ExchangeError") =>
        /\ raised # <<>>
        /\ LET code == outcome[1].code
               e == raised[1]
           IN /\ code = 60001 => e.prefix = "Insufficient Funds"
              /\ code \in 70001..70014 => e.type = "PermissionError"
              /\ (code # 60001 /\ code \notin 70001..70014) =>
                    /\ e.type = "RuntimeError"
                    /\ e.prefix # "Insufficient Funds"

\* The endpoints of the private API.
PrivateEndpoints ==
    {"/v1/user/spot/order", "/v1/user/spot/cancel_order", "/v1/user/spot/trade_history"}

\* The payload the signature of a request covers, read off the request as sent.
SignedPayload(r) ==
    IF r.method = "GET"
    THEN <<r.endpoint>> \o (IF r.query # <<>> THEN <<"?">> \o UrlEncode(r.query[1]) ELSE <<>>)
    ELSE IF r.body # <<>> THEN r.body[1] ELSE <<>>

\* C24: only private requests carry the key, nonce and signature headers; the
\* nonce is the timestamp; the signature is the HMAC under the secret of the
\* timestamp followed by path and query (GET) or by the raw body (other
\* methods), so it is fixed by secret, timestamp and payload.
C24_Signing ==
    sent # <<>> =>
        LET r == sent[1]
        IN /\ r.headers # <<>> <=> r.endpoint \in PrivateEndpoints
           /\ r.headers # <<>> =>
                /\ r.headers[1].key = "key"
                /\ r.headers[1].nonce = timestamp
                /\ r.headers[1].signature =
                        [hmac_key |-> "secret", text |-> <<timestamp>> \o SignedPayload(r)]

\* A private POST with a body and a private GET with a query were each signed:
\* the state holds one of them, the cancel request.
C24_Witness ==
    /\ sent # <<>>
    /\ sent[1].method = "POST"
    /\ sent[1].endpoint = "/v1/user/spot/cancel_order"
    /\ sent[1].headers # <<>>
    /\ sent[1].headers[1].signature.text[1] = "1700000000001"

\* ------------------------------------------------------------------------
\* Further claims about MarketDataFeed (Spec, SpecFair, SpecStream)
\* ------------------------------------------------------------------------
\* C25: every connection attempt that follows a terminal error of the
\* previous attempt starts from the backoff sleep, whose delay is at least 1:
\* the loop never reconnects with zero delay.
C25_DelayBeforeReconnect ==
    [][(AttemptStarts /\ pc # "idle") => (pc = "sleeping" /\ backoff_sec >= 1)]_vars

\* C26: the loop ends only from Streaming with the command channel released
\* and drained; until then every terminal error leads to the backoff sleep or
\* straight to a new attempt, and every sleep is followed by a new attempt.
C26_NoTerminalState ==
    /\ [](pc = "done" => sender = "none")
    /\ [][(pc # "done" /\ pc' = "done") =>
            (pc = "streaming" /\ sender = "none" /\ cmdq = <<>>)]_vars
    /\ [][(pc \in {"connecting", "handshake", "streaming"} /\ pc' # pc) =>
            pc' \in {"handshake", "streaming", "sleeping", "connecting", "done"}]_vars
    /\ (pc = "sleeping" ~> pc = "connecting")

\* An attempt is being made after nine sleeps in a row, the channel not released.
C26_Witness ==
    /\ pc = "connecting"
    /\ sender = "some"
    /\ connections = 2
    /\ retries = 9

\* C29: on every connection the handshake frame is the first frame written,
\* nothing is written and no inbound frame is read before it, and every join
\* comes after it.
C29_HandshakeFirst ==
    /\ [](pc = "handshake" => written = <<>>)
    /\ [](written # <<>> =>
            /\ written[1] = HandshakeFrame
            /\ \A i \in 2..Len(written) : written[i] # HandshakeFrame)
    /\ [][(written = <<>> /\ written' # <<>>) => pc = "handshake"]_vars
    /\ [](pc = "streaming" => written # <<>>)

\* A reconnect wrote the handshake and then the joins of two rooms, and a
\* ping was answered afterwards.
C29_Witness ==
    /\ pc = "streaming"
    /\ connections = 2
    /\ Len(written) = 4
    /\ written[1] = HandshakeFrame
    /\ JoinedRooms(written) = Rooms
    /\ written[4] = PongFrame

\* C28: the iteration that reads the ping "2" writes the pong "3", and only
\* that iteration writes one: the answer is part of the same iteration, before
\* the loop reads anything else.
C28_PingAnsweredInIteration ==
    /\ frame.kind = "ping" => wrote = <<PongFrame>>
    /\ frame.kind # "ping" => wrote = <<>>

\* A ping was read after a snapshot had been applied and delivered.
C28_Witness ==
    /\ frame.kind = "ping"
    /\ wrote = <<PongFrame>>
    /\ books["btc_jpy"] # <<>>
    /\ books["btc_jpy"][1].sequence = 2
    /\ data_callback

\* ------------------------------------------------------------------------
\* Further claims about PrivateFeedClient (SpecPoll, SpecPollFair)
\* ------------------------------------------------------------------------
\* C27: the token-refresh loop ends only from the poll loop's clean stop; an
\* auth-expired result leads to the short wait and a failed fetch to the long
\* wait; each wait is left only for a new fetch, and is left.
C27_RefreshLoopEndsOnlyOnStop ==
    /\ [][(outer # "terminated" /\ outer' = "terminated") =>
            (outer = "polling" /\ inner = "top" /\ ~running)]_vars
    /\ [][(outer = "polling" /\ outer' # outer) =>
            \/ outer' = "terminated"
            \/ outer' = "wait_refresh" /\ expired' # expired]_vars
    /\ [][(outer = "fetching" /\ outer' # outer) =>
            \/ outer' = "polling" /\ fetches' = fetches + 1
            \/ outer' = "wait_retry"]_vars
    /\ [][(outer \in {"wait_refresh", "wait_retry"} /\ outer' # outer) =>
            outer' = "fetching"]_vars
    /\ (outer \in {"wait_refresh", "wait_retry"} ~> outer = "fetching")

\* After three attempts that each ended auth-expired, a fetch failed and the
\* loop is in its long wait.
C27_Witness ==
    /\ outer = "wait_retry"
    /\ expired = {1, 2, 3}
    /\ fetches = 3

\* ------------------------------------------------------------------------
\* Claims about the receive arm and the order-book map (SpecStream)
\* ------------------------------------------------------------------------
\* The frame is a depth_whole_ or depth_diff_ message whose payload decodes:
\* a snapshot needs asks, bids and timestamp, a diff needs s as well.
IsDecodableDepthFrame(f) ==
    /\ f.kind = "message"
    /\ f.room \in {"depth_whole_btc_jpy", "depth_diff_btc_jpy"}
    /\ f.data.shape = "depth"
    /\ f.room = "depth_diff_btc_jpy" => f.data.depth.s # <<>>

\* The pair's book as the frame finds it (a new book when the map has none).
BookBefore(pair) == IF books[pair] = <<>> THEN new_book ELSE books[pair][1]

\* C30: with a sink registered, a depth_whole_ or depth_diff_ frame whose
\* payload decodes makes exactly one sink call, keyed by the frame's room
\* name, whose payload is the pair's OrderBook as the map holds it right after
\* the frame (for a stale diff the book as it was), never the raw payload.
C30_SinkGetsBookAfterFrame ==
    /\ data_callback =>
        \A f \in TextFrames :
            IsDecodableDepthFrame(f) =>
                LET r == on_text(books, data_callback, f)
                    ev == r.events
                IN /\ Len(ev) = 1
                   /\ ev[1].room = f.room
                   /\ ev[1].obj.type = "OrderBook"
                   /\ ev[1].obj.book = r.books["btc_jpy"][1]
                   /\ (f.room = "depth_diff_btc_jpy"
                         /\ f.data.depth.s[1] <= BookBefore("btc_jpy").sequence) =>
                        ev[1].obj.book = BookBefore("btc_jpy")
                   /\ (f.room = "depth_whole_btc_jpy" /\ f.data.depth.s # <<>>) =>
                        ev[1].obj.book.sequence = f.data.depth.s[1]
    /\ (delivered # <<>> /\ frame.room \in {"depth_whole_btc_jpy", "depth_diff_btc_jpy"}) =>
        /\ Len(delivered) = 1
        /\ delivered[1].room = frame.room
        /\ delivered[1].obj = [type |-> "OrderBook", book |-> books["btc_jpy"][1]]

\* A diff frame was handled with the sink registered: the sink got the merged
\* book, at sequence 2 with an ask and a bid.
C30_Witness ==
    /\ frame.kind = "message"
    /\ frame.room = "depth_diff_btc_jpy"
    /\ Len(delivered) = 1
    /\ delivered[1].room = "depth_diff_btc_jpy"
    /\ delivered[1].obj.type = "OrderBook"
    /\ delivered[1].obj.book.sequence = 2
    /\ delivered[1].obj.book.asks # EmptyLadder
    /\ delivered[1].obj.book.bids # EmptyLadder

\* The frame is malformed: a text that is neither the ping nor a 42-frame
\* with room_name and message.data, or a 42-frame whose payload does not
\* decode into the type its room calls for.
IsMalformedFrame(f) ==
    \/ f.kind = "malformed"
    \/ /\ f.kind = "message"
       /\ \/ f.room = "depth_whole_btc_jpy" /\ f.data.shape # "depth"
          \/ f.room = "depth_diff_btc_jpy"
                /\ (f.data.shape # "depth" \/ f.data.depth.s = <<>>)
          \/ f.room = "ticker_btc_jpy" /\ f.data.shape # "ticker"
          \/ f.room = "transactions_btc_jpy" /\ f.data.shape # "transactions"

\* C31: a malformed frame or payload is dropped: no sink event, the order-book
\* map unchanged (no entry created, no book modified), nothing written, the
\* loop still reading on the same connection.
C31_MalformedDropped ==
    \A f \in TextFrames :
        IsMalformedFrame(f) =>
            /\ on_text(books, data_callback, f).events = <<>>
            /\ on_text(books, data_callback, f).writes = <<>>
            /\ on_text(books, data_callback, f).books = books

\* C32: during the re-join replay no join command is sent while the
\* SubscriptionSet lock is held.
C32_NoSendUnderSubscriptionsLock ==
    \A i \in DOMAIN trace :
        trace[i].op = "send" => "subscriptions" \notin trace[i].held

DataLocks == {"books", "orders", "client_oid_map"}
Mutations == {"apply", "insert"}

\* C33: the sink is never called while the order-book map lock, the
\* OrderStateCache lock or the ClientOrderIdMap lock is held, and between
\* taking one of these locks and releasing it at most one merge or insert runs.
C33_NoCallbackUnderLock ==
    /\ \A i \in DOMAIN trace :
           trace[i].op = "callback" => trace[i].held \cap DataLocks = {}
    /\ \A i, j \in DOMAIN trace :
           (/\ i < j
            /\ trace[i].op \in Mutations
            /\ trace[j].op \in Mutations)
           => \E k \in i..j : trace[k].op = "release" /\ trace[k].held \cap DataLocks = {}

C33_Witness ==
    /\ block = <<>>
    /\ \E i, j, k \in DOMAIN trace :
           /\ i < j /\ j < k
           /\ trace[i].op = "insert" /\ trace[i].held = {"orders"}
           /\ trace[j].op = "callback"
           /\ trace[k].op = "insert"

\* C34: an exchange order id that is a key of the order cache stays a key in
\* every later state, whatever submit_order calls and feed events interleave.
C34_OrdersNeverDeleted ==
    [][DOMAIN orders \subseteq DOMAIN orders']_vars

C34_Witness ==
    /\ DOMAIN orders = OrderIds
    /\ orders[1].status = "FILLED"
    /\ \E c \in Callers : calls[c].oid = 1 /\ calls[c].pc = "returned"

\* C35: every exchange order id stored as a value of the client-order-id map
\* is a key of the order cache, and the map changes only in the step of a
\* submit_order call whose create_order succeeded, by that call's entry.
C35_ClientIdMapConsistent ==
    [][/\ \A k \in DOMAIN client_oid_map' : client_oid_map'[k] \in DOMAIN orders'
       /\ client_oid_map' # client_oid_map =>
             \E c \in Callers :
                 /\ calls[c].pc = "insert_map"
                 /\ calls[c].oid \in issued
                 /\ calls'[c].pc = "read_back"
                 /\ client_oid_map' = MapInsert(client_oid_map, calls[c].cid, calls[c].oid)]_vars

C35_Witness ==
    /\ DOMAIN client_oid_map = ClientIds
    /\ client_oid_map["c1"] # client_oid_map["c2"]
    /\ \E c \in Callers : calls[c].pc = "returned"
    /\ \E id \in DOMAIN orders : orders[id].status = "FILLED"

\* C36: the Order a submit_order call returns is the Order create_order
\* returned to that call.
C36_ReturnsCreatedOrder ==
    \A c \in Callers :
        calls[c].pc = "returned" =>
            calls[c].result = OrderJson(Order(calls[c].oid, "UNFILLED"))

\* C37: neither ladder of the order book ever holds a price level whose
\* amount is a zero.
C37_NoZeroLevel ==
    /\ \A p \in DOMAIN book.asks : book.asks[p] \notin ZeroAmounts
    /\ \A p \in DOMAIN book.bids : book.bids[p] \notin ZeroAmounts

\* C38: a depth diff does not change a pair's book that has not received a
\* snapshot: handled while the map has no book for the pair, it leaves at
\* most an empty book there.
C38_NoDiffBeforeSnapshot ==
    [][(books["btc_jpy"] = <<>> /\ frame'.room = "depth_diff_btc_jpy")
          => books'["btc_jpy"] \in {<<>>, <<new_book>>}]_vars

\* The loop's step from a poll in flight: a 2xx response was handled, or the
\* poll failed (another status, a network error).
PollSucceeded == inner = "inflight" /\ inner' = "top"
PollFailed == inner = "inflight" /\ inner' \in {"sleeping", "none"}
AttemptStarted == outer = "fetching" /\ outer' = "polling"

\* C40 as stated: a 2xx response without a cursor leaves the cursor unchanged
\* and forwards no message.
C40_NoCursorForwardsNothing ==
    [][(PollSucceeded /\ poll_body'.cursor = "absent")
          => (timetoken' = timetoken /\ chan_log' = <<>> /\ sink_log' = <<>>)]_vars

\* C40 (amended): the cursor a poll sends is "0" from the start of the attempt
\* until a 2xx response carries a string at t.t, and then the string of the
\* latest such response; a failed poll and a 2xx response whose body does not
\* parse leave the cursor unchanged and forward nothing; a 2xx response
\* without a cursor leaves the cursor unchanged and forwards its messages.
C40_CursorFollowsResponses ==
    [][/\ AttemptStarted => timetoken' = "0"
       /\ PollSucceeded =>
             /\ timetoken' = IF poll_body'.cursor \in Cursors THEN poll_body'.cursor ELSE timetoken
             /\ ~poll_body'.parsed => (chan_log' = <<>> /\ sink_log' = <<>>)
             /\ poll_body'.parsed => Len(chan_log') = Len(response')
       /\ PollFailed => (timetoken' = timetoken /\ chan_log' = <<>> /\ sink_log' = <<>>)
       /\ (~AttemptStarted /\ ~PollSucceeded) => timetoken' = timetoken]_vars

\* After a response that carried the cursor "t1", a 2xx response with messages
\* and no cursor was handled: the cursor is still "t1".
C40_Witness ==
    /\ inner = "top"
    /\ poll_body.parsed /\ poll_body.cursor = "absent"
    /\ timetoken = "t1"
    /\ chan_log # <<>>

\* C39: a feed loop handles an inbound frame (applies a book update, calls
\* the sink) only while no other loop of the client is in its select loop.
C39_OneLoopStreaming ==
    [][\A l \in 1..MaxLoops :
          handled'[l] # handled[l] =>
              \A k \in (1..MaxLoops) \ {l} : loops[k] # "streaming"]_vars

====
